---- MODULE Spec2Model ----
(***************************************************************************)
(* Scripture-Roots: the lineage index and navigation engine.               *)
(*                                                                         *)
(*   services/personDataService.ts  resource caches, derived parents       *)
(*                                  index, node materializer, searches     *)
(*   App.tsx (unnamed/part_000)     the partial tree model held in React   *)
(*                                  state and the handlers that change it  *)
(*                                                                         *)
(* JavaScript values are modelled as follows.                              *)
(*   - an optional value (undefined / null or a value) is None or Some(v); *)
(*   - a Map is the sequence of its <<key, value>> entries in insertion    *)
(*     order, keys unique (Map iteration order is insertion order);        *)
(*   - a PersonNode is a record; its field _children is named hidden;      *)
(*   - a reference to a node inside a tree is its location: the sequence   *)
(*     of <<field, index>> steps from the root;                            *)
(*   - a string is a TLA+ string; trim and toLowerCase work on it one      *)
(*     character at a time.                                                *)
(***************************************************************************)
EXTENDS Integers, Sequences, FiniteSets, TLC

VARIABLES
    fnTree,     \* SpecTree: the tree handed to findNodeById / findPathToNode
    fnQuery,    \* SpecTree: the identifier looked for
    fnFound,    \* SpecTree: what findNodeById returned (None before the call)
    fnPath,     \* SpecTree: what findPathToNode returned
    fnDone,     \* SpecTree: TRUE once both functions have been applied
    store,              \* the JSON files behind /data: [root, people, children, aliases]
    rootCache,          \* personDataService.ts module state
    peopleIndexCache,
    childrenCache,
    parentsCache,
    aliasesCache,
    ixFailed,           \* SpecIndex: the resources whose load failed
    ixCall,             \* SpecIndex: the latest service call: [fn, arg, out]
    data,               \* App state: the published tree (null before the first setData)
    selectedPerson,
    selectedBook,
    highlightId,
    hasAutoExpanded,    \* App ref
    ops,                \* the asynchronous operations in progress
    alerts,             \* the alert() calls so far, by kind of message
    prev,               \* the instance data held before the latest setData, as it reads now
    pubs,               \* number of setData calls so far
    done,               \* the operation that completed last: its kind and its setData calls
    events,             \* number of user events so far
    firstView           \* the tree the first resetView to complete has published

fnVars == <<fnTree, fnQuery, fnFound, fnPath, fnDone>>
cacheVars == <<rootCache, peopleIndexCache, childrenCache, parentsCache>>
appVars == <<data, selectedPerson, selectedBook, highlightId, hasAutoExpanded,
             ops, alerts, prev, pubs, done, events, firstView>>
ixVars == <<aliasesCache, ixFailed, ixCall>>
vars == <<fnVars, store, cacheVars, ixVars, appVars>>

----------------------------------------------------------------------------
(* Optional values *)

None == <<>>
Some(v) == <<v>>
IsSome(o) == o # <<>>
Get(o) == o[1]

(* x || [] for an optional array *)
OrEmpty(o) == IF IsSome(o) THEN Get(o) ELSE <<>>

----------------------------------------------------------------------------
(* PersonNode *)

Node(id, name) ==
    [id |-> id, name |-> name, children |-> None, hidden |-> None,
     hasLoadedChildren |-> FALSE, isFilterRoot |-> FALSE,
     suppressChildren |-> FALSE, firstMention |-> ""]

(* JSON.parse(JSON.stringify(x)) on a PersonNode: an undefined field is
   dropped and reads back as undefined, an array (also an empty one) and a
   boolean are kept, so the copy has the same fields with the same values at
   every level. It is rebuilt field by field here, as the round trip does. *)
RECURSIVE JsonClone(_)
JsonCloneList(o) ==
    IF IsSome(o) THEN Some([i \in 1..Len(Get(o)) |-> JsonClone(Get(o)[i])]) ELSE None
JsonClone(node) ==
    [id |-> node.id, name |-> node.name,
     children |-> JsonCloneList(node.children),
     hidden |-> JsonCloneList(node.hidden),
     hasLoadedChildren |-> node.hasLoadedChildren,
     isFilterRoot |-> node.isFilterRoot,
     suppressChildren |-> node.suppressChildren,
     firstMention |-> node.firstMention]

(* The node a location refers to, and the tree with that node replaced. *)
RECURSIVE NodeAt(_, _)
NodeAt(root, loc) ==
    IF loc = <<>> THEN root
    ELSE LET list == IF loc[1][1] = "children" THEN Get(root.children) ELSE Get(root.hidden)
         IN NodeAt(list[loc[1][2]], Tail(loc))

RECURSIVE SetAt(_, _, _)
SetAt(root, loc, new) ==
    IF loc = <<>> THEN new
    ELSE LET k == loc[1][1]
             i == loc[1][2]
         IN IF k = "children"
            THEN [root EXCEPT !.children =
                    Some([Get(root.children) EXCEPT ![i] = SetAt(@, Tail(loc), new)])]
            ELSE [root EXCEPT !.hidden =
                    Some([Get(root.hidden) EXCEPT ![i] = SetAt(@, Tail(loc), new)])]

----------------------------------------------------------------------------
(* Node Locator and Path Finder (App.tsx) *)

RECURSIVE findNodeById(_, _)
RECURSIVE findInList(_, _, _, _)

(* for (const child of list) { const found = findNodeById(child, id);
                               if (found) return found; } *)
findInList(list, field, i, id) ==
    IF i > Len(list) THEN None
    ELSE LET found == findNodeById(list[i], id)
         IN IF IsSome(found) THEN Some(<< <<field, i>> >> \o Get(found))
            ELSE findInList(list, field, i + 1, id)

(* findNodeById without the loop over node._children *)
findNodeByIdVisibleOnly(node, id) ==
    IF node.id = id \/ node.name = id THEN Some(<<>>)
    ELSE IF IsSome(node.children)
         THEN findInList(Get(node.children), "children", 1, id)
         ELSE None

findNodeById(node, id) ==
    IF node.id = id \/ node.name = id THEN Some(<<>>)
    ELSE LET vis == IF IsSome(node.children)
                    THEN findInList(Get(node.children), "children", 1, id)
                    ELSE None
         IN IF IsSome(vis) THEN vis
            ELSE IF IsSome(node.hidden)
                 THEN findInList(Get(node.hidden), "_children", 1, id)
                 ELSE None

RECURSIVE findPathToNode(_, _, _)
RECURSIVE findPathInList(_, _, _, _)

findPathInList(list, i, id, path) ==
    IF i > Len(list) THEN None
    ELSE LET result == findPathToNode(list[i], id, path)
         IN IF IsSome(result) THEN result
            ELSE findPathInList(list, i + 1, id, path)

(* findPathToNode with childrenToCheck = root.children || [] *)
findPathToNodeVisibleOnly(root, id, path) ==
    IF root.id = id \/ root.name = id THEN Some(Append(path, root.id))
    ELSE findPathInList(OrEmpty(root.children), 1, id, Append(path, root.id))

findPathToNode(root, id, path) ==
    IF root.id = id \/ root.name = id THEN Some(Append(path, root.id))
    ELSE LET childrenToCheck == OrEmpty(root.children) \o OrEmpty(root.hidden)
         IN findPathInList(childrenToCheck, 1, id, Append(path, root.id))

----------------------------------------------------------------------------
(* JavaScript Map: <<key, value>> entries in insertion order *)

EmptyMap == <<>>
MapHas(m, k) == \E i \in 1..Len(m) : m[i][1] = k
MapIndex(m, k) == CHOOSE i \in 1..Len(m) : m[i][1] = k
MapGet(m, k) == IF MapHas(m, k) THEN Some(m[MapIndex(m, k)][2]) ELSE None
MapSet(m, k, v) ==
    IF MapHas(m, k) THEN [m EXCEPT ![MapIndex(m, k)] = <<k, v>>]
    ELSE Append(m, <<k, v>>)
MapKeys(m) == { m[i][1] : i \in 1..Len(m) }

Includes(list, x) == \E i \in 1..Len(list) : list[i] = x

----------------------------------------------------------------------------
(* Strings: String.prototype.trim and toLowerCase, character by character,
   over the ASCII letters and white space. *)

IsSpace(c) == c \in {" ", "\t", "\n"}

CharAt(str, i) == SubSeq(str, i, i)

UpperCase == "ABCDEFGHIJKLMNOPQRSTUVWXYZ"
LowerCase == "abcdefghijklmnopqrstuvwxyz"

LowerOf(c) ==
    IF \E k \in 1..Len(UpperCase) : CharAt(UpperCase, k) = c
    THEN LET k == CHOOSE n \in 1..Len(UpperCase) : CharAt(UpperCase, n) = c
         IN CharAt(LowerCase, k)
    ELSE c

RECURSIVE TrimStart(_)
TrimStart(str) ==
    IF Len(str) > 0 /\ IsSpace(CharAt(str, 1)) THEN TrimStart(SubSeq(str, 2, Len(str)))
    ELSE str

RECURSIVE TrimEnd(_)
TrimEnd(str) ==
    IF Len(str) > 0 /\ IsSpace(CharAt(str, Len(str))) THEN TrimEnd(SubSeq(str, 1, Len(str) - 1))
    ELSE str

RECURSIVE ToLowerCase(_)
ToLowerCase(str) ==
    IF Len(str) = 0 THEN ""
    ELSE LowerOf(CharAt(str, 1)) \o ToLowerCase(SubSeq(str, 2, Len(str)))

normalizeKey(value) == ToLowerCase(TrimEnd(TrimStart(value)))

----------------------------------------------------------------------------
(* Resource Cache: what each load builds from the JSON it fetched
   (services/personDataService.ts). A PeopleIndexEntry is
   [id, name, firstMention, verseCount]; firstMention "" and verseCount None
   stand for an absent field. *)

Entry(id, name, firstMention, verseCount) ==
    [id |-> id, name |-> name, firstMention |-> firstMention, verseCount |-> verseCount]

buildNode(entry) ==
    [id |-> entry.id, name |-> entry.name, children |-> None, hidden |-> None,
     hasLoadedChildren |-> FALSE, isFilterRoot |-> FALSE,
     suppressChildren |-> FALSE, firstMention |-> entry.firstMention]

(* Object.values(raw).forEach((entry) => map.set(entry.id, entry)):
   raw is the sequence of the values of people.json. *)
RECURSIVE PeopleMap(_, _)
PeopleMap(raw, map) ==
    IF raw = <<>> THEN map
    ELSE PeopleMap(Tail(raw), MapSet(map, Head(raw).id, Head(raw)))

(* loadAliasesData storing each entry under its raw key: map.set(key, value) *)
RECURSIVE AliasesMapRawKeys(_, _)
AliasesMapRawKeys(raw, map) ==
    IF raw = <<>> THEN map
    ELSE AliasesMapRawKeys(Tail(raw), MapSet(map, Head(raw)[1], Head(raw)[2]))

(* Object.entries(raw).forEach(([key, value]) => map.set(normalizeKey(key), value)) *)
RECURSIVE AliasesMap(_, _)
AliasesMap(raw, map) ==
    IF raw = <<>> THEN map
    ELSE AliasesMap(Tail(raw), MapSet(map, normalizeKey(Head(raw)[1]), Head(raw)[2]))

(* map.set(key, Array.isArray(value) ? value : []): a value of children.json
   that is not an array is None here. *)
RECURSIVE ChildrenMap(_, _)
ChildrenMap(raw, map) ==
    IF raw = <<>> THEN map
    ELSE ChildrenMap(Tail(raw), MapSet(map, Head(raw)[1], OrEmpty(Head(raw)[2])))

(* loadParentsIndex: childrenIndex.forEach((children, parentId) =>
     children.forEach((childId) => { existing = map.get(childId) || [];
       if (!existing.includes(parentId)) existing.push(parentId);
       map.set(childId, existing) })) *)
RECURSIVE ParentsOfChildren(_, _, _)
ParentsOfChildren(children, parentId, map) ==
    IF children = <<>> THEN map
    ELSE LET childId == Head(children)
             existing == OrEmpty(MapGet(map, childId))
             pushed == IF Includes(existing, parentId) THEN existing
                       ELSE Append(existing, parentId)
         IN ParentsOfChildren(Tail(children), parentId, MapSet(map, childId, pushed))

RECURSIVE ParentsMap(_, _)
ParentsMap(childrenIndex, map) ==
    IF childrenIndex = <<>> THEN map
    ELSE ParentsMap(Tail(childrenIndex),
                    ParentsOfChildren(Head(childrenIndex)[2], Head(childrenIndex)[1], map))

(* fetchChildren, given the two indexes its Promise.all resolved to *)
(* fetchChildren giving up at the first child identifier that has no entry in
   the people index *)
fetchChildrenUntilMissing(parentId, peopleIndex, childrenIndex) ==
    LET childIds == OrEmpty(MapGet(childrenIndex, parentId))
        missing == { i \in 1..Len(childIds) : ~MapHas(peopleIndex, childIds[i]) }
        known == IF missing = {} THEN childIds
                 ELSE SubSeq(childIds, 1, (CHOOSE i \in missing : \A j \in missing : i <= j) - 1)
    IN [i \in 1..Len(known) |-> buildNode(Get(MapGet(peopleIndex, known[i])))]

fetchChildren(parentId, peopleIndex, childrenIndex) ==
    LET childIds == OrEmpty(MapGet(childrenIndex, parentId))
        known == SelectSeq(childIds, LAMBDA id : MapHas(peopleIndex, id))
    IN [i \in 1..Len(known) |-> buildNode(Get(MapGet(peopleIndex, known[i])))]

(* searchPerson with the fallback looking the normalized query up:
   if (peopleIndex.has(normalized)) return normalized *)
searchPersonNormalizedFallback(query, aliases, peopleIndex) ==
    LET normalized == normalizeKey(query)
        aliasMatches == MapGet(aliases, normalized)
    IN IF normalized = "" THEN None
       ELSE IF IsSome(aliasMatches) /\ Len(Get(aliasMatches)) > 0
            THEN Some(Get(aliasMatches)[1])
       ELSE IF MapHas(peopleIndex, normalized) THEN Some(normalized)
       ELSE None

searchPerson(query, aliases, peopleIndex) ==
    LET normalized == normalizeKey(query)
        aliasMatches == MapGet(aliases, normalized)
    IN IF normalized = "" THEN None
       ELSE IF IsSome(aliasMatches) /\ Len(Get(aliasMatches)) > 0
            THEN Some(Get(aliasMatches)[1])
       ELSE IF MapHas(peopleIndex, query) THEN Some(query)
       ELSE None

buildPersonNodeById(id, peopleIndex) ==
    LET entry == MapGet(peopleIndex, id)
    IN IF IsSome(entry) THEN Some(buildNode(Get(entry))) ELSE None

----------------------------------------------------------------------------
(* Ancestor Path Resolver (services/personDataService.ts) *)

scoreParent(parentId, peopleIndex) ==
    LET entry == MapGet(peopleIndex, parentId)
    IN IF IsSome(entry) /\ IsSome(Get(entry).verseCount) THEN Get(Get(entry).verseCount)
       ELSE 0

(* [...parents].sort((a, b) => scoreParent(b) - scoreParent(a)): Array.sort is
   stable, so x goes behind every element whose score is not lower. *)
RECURSIVE InsertByScore(_, _, _)
InsertByScore(sorted, x, peopleIndex) ==
    IF sorted = <<>> THEN <<x>>
    ELSE IF scoreParent(Head(sorted), peopleIndex) >= scoreParent(x, peopleIndex)
         THEN <<Head(sorted)>> \o InsertByScore(Tail(sorted), x, peopleIndex)
         ELSE <<x>> \o sorted

(* the parents left in ParentsIndex order: no sort by verse count *)
SortParentsUnsorted(parents, sorted, peopleIndex) == sorted \o parents

RECURSIVE SortParents(_, _, _)
SortParents(parents, sorted, peopleIndex) ==
    IF parents = <<>> THEN sorted
    ELSE SortParents(Tail(parents), InsertByScore(sorted, Head(parents), peopleIndex), peopleIndex)

(* visit shares one mutable visited set over the whole search: it returns the
   path found (or null) and the set as it left it. *)
RECURSIVE visit(_, _, _, _, _)
RECURSIVE visitParents(_, _, _, _, _, _, _)

visitParents(sortedParents, i, currentId, visited, rootId, parentsIndex, peopleIndex) ==
    IF i > Len(sortedParents) THEN [result |-> None, visited |-> visited]
    ELSE LET r == visit(sortedParents[i], visited, rootId, parentsIndex, peopleIndex)
         IN IF IsSome(r.result)
            THEN [result |-> Some(Append(Get(r.result), currentId)), visited |-> r.visited]
            ELSE visitParents(sortedParents, i + 1, currentId, r.visited,
                              rootId, parentsIndex, peopleIndex)

visit(currentId, visited, rootId, parentsIndex, peopleIndex) ==
    IF currentId = rootId THEN [result |-> Some(<<rootId>>), visited |-> visited]
    ELSE IF currentId \in visited THEN [result |-> None, visited |-> visited]
    ELSE LET parents == OrEmpty(MapGet(parentsIndex, currentId))
             sortedParents == SortParents(parents, <<>>, peopleIndex)
         IN visitParents(sortedParents, 1, currentId, visited \cup {currentId},
                         rootId, parentsIndex, peopleIndex)

findAncestorPath(targetId, rootId, parentsIndex, peopleIndex) ==
    visit(targetId, {}, rootId, parentsIndex, peopleIndex).result

----------------------------------------------------------------------------
(* Category Subtree Builder (services/personDataService.ts) *)

(* buildSubtree adds id to visited on entry and deletes it again before every
   return, so the set a call leaves behind is the set it was given. *)
RECURSIVE buildSubtree(_, _, _, _)
RECURSIVE buildSubtrees(_, _, _, _)

RECURSIVE SubtreeIds(_)
SubtreeIds(node) ==
    {node.id} \cup UNION { SubtreeIds(OrEmpty(node.hidden)[i]) : i \in 1..Len(OrEmpty(node.hidden)) }

(* buildSubtree's loop never deleting from visited: a person built below one
   child is not built again below a later child *)
buildSubtreesSharedVisited(childIds, visited, peopleIndex, childrenIndex) ==
    IF childIds = <<>> THEN <<>>
    ELSE LET childNode == buildSubtree(Head(childIds), visited, peopleIndex, childrenIndex)
             seen == IF IsSome(childNode) THEN visited \cup SubtreeIds(Get(childNode))
                     ELSE visited
             rest == buildSubtrees(Tail(childIds), seen, peopleIndex, childrenIndex)
         IN IF IsSome(childNode) THEN <<Get(childNode)>> \o rest ELSE rest

(* for (const childId of childIds) { const childNode = buildSubtree(childId, visited);
                                     if (childNode) children.push(childNode); } *)
buildSubtrees(childIds, visited, peopleIndex, childrenIndex) ==
    IF childIds = <<>> THEN <<>>
    ELSE LET childNode == buildSubtree(Head(childIds), visited, peopleIndex, childrenIndex)
             rest == buildSubtrees(Tail(childIds), visited, peopleIndex, childrenIndex)
         IN IF IsSome(childNode) THEN <<Get(childNode)>> \o rest ELSE rest

(* buildSubtree keeping a person met again on its own chain as a childless
   node instead of dropping it *)
buildSubtreeRepeatAsLeaf(id, visited, peopleIndex, childrenIndex) ==
    LET entry == MapGet(peopleIndex, id)
    IN IF ~IsSome(entry) THEN None
       ELSE IF id \in visited THEN Some(buildNode(Get(entry)))
       ELSE LET node == buildNode(Get(entry))
                childIds == OrEmpty(MapGet(childrenIndex, id))
                children == buildSubtrees(childIds, visited \cup {id},
                                          peopleIndex, childrenIndex)
            IN Some(IF Len(children) > 0 THEN [node EXCEPT !.hidden = Some(children)]
                    ELSE node)

buildSubtree(id, visited, peopleIndex, childrenIndex) ==
    IF id \in visited THEN None
    ELSE LET entry == MapGet(peopleIndex, id)
         IN IF ~IsSome(entry) THEN None
            ELSE LET node == buildNode(Get(entry))
                     childIds == OrEmpty(MapGet(childrenIndex, id))
                     children == buildSubtrees(childIds, visited \cup {id},
                                               peopleIndex, childrenIndex)
                 IN Some(IF Len(children) > 0 THEN [node EXCEPT !.hidden = Some(children)]
                         ELSE node)

(* seedIds taking every person whose firstMention starts with book *)
SeedIdsByPrefix(book, peopleIndex) ==
    LET seeds == SelectSeq(peopleIndex,
                           LAMBDA e : /\ Len(book) <= Len(e[2].firstMention)
                                      /\ SubSeq(e[2].firstMention, 1, Len(book)) = book)
    IN [i \in 1..Len(seeds) |-> seeds[i][2].id]

SeedIds(book, peopleIndex) ==
    LET seeds == SelectSeq(peopleIndex, LAMBDA e : e[2].firstMention = book)
    IN [i \in 1..Len(seeds) |-> seeds[i][2].id]

(* buildBookFilteredTree without the test seedIds.length === 0 *)
buildBookFilteredTreeNoSeedTest(book, peopleIndex, childrenIndex) ==
    LET seedIds == SeedIds(book, peopleIndex)
    IN IF book = "" THEN None
       ELSE Some([id |-> "book-" \o book,
                  name |-> book \o " First Appearances",
                  children |-> Some(buildSubtrees(seedIds, {}, peopleIndex, childrenIndex)),
                  hidden |-> None,
                  hasLoadedChildren |-> TRUE,
                  isFilterRoot |-> TRUE,
                  suppressChildren |-> FALSE,
                  firstMention |-> ""])

(* buildBookFilteredTree handing the seed subtrees over as _children *)
buildBookFilteredTreeSeedsHidden(book, peopleIndex, childrenIndex) ==
    LET seedIds == SeedIds(book, peopleIndex)
    IN IF book = "" THEN None
       ELSE IF Len(seedIds) = 0 THEN None
       ELSE Some([id |-> "book-" \o book,
                  name |-> book \o " First Appearances",
                  children |-> None,
                  hidden |-> Some(buildSubtrees(seedIds, {}, peopleIndex, childrenIndex)),
                  hasLoadedChildren |-> TRUE,
                  isFilterRoot |-> TRUE,
                  suppressChildren |-> FALSE,
                  firstMention |-> ""])

buildBookFilteredTree(book, peopleIndex, childrenIndex) ==
    LET seedIds == SeedIds(book, peopleIndex)
    IN IF book = "" THEN None
       ELSE IF Len(seedIds) = 0 THEN None
       ELSE Some([id |-> "book-" \o book,
                  name |-> book \o " First Appearances",
                  children |-> Some(buildSubtrees(seedIds, {}, peopleIndex, childrenIndex)),
                  hidden |-> None,
                  hasLoadedChildren |-> TRUE,
                  isFilterRoot |-> TRUE,
                  suppressChildren |-> FALSE,
                  firstMention |-> ""])

----------------------------------------------------------------------------
(* Lazy Expansion Engine (App.tsx)

   expandNode runs on the private copy expandInitialGenerations made. It is
   given the fetches issued so far in this expansion and returns the node as it
   left it together with the extended list; a fetch is recorded with the
   identifier asked for and the location of the node that asked.
   ctx.first holds the indexes the first fetchChildren of the expansion
   resolves to (the ones its own loads returned), ctx.later the cached indexes
   every further fetchChildren reads. *)

IndexesFor(ctx, log) == IF log = <<>> THEN ctx.first ELSE ctx.later

RECURSIVE expandNode(_, _, _, _, _)
RECURSIVE expandChildren(_, _, _, _, _, _)

(* expandChildren going over the children twice: first fetching for every
   child the list it lacks, then descending into each child *)
expandChildrenSiblingsFirst(node, loc, i, remainingDepth, ctx, log) ==
    LET n == Len(Get(node.children))
        j == IF i <= n THEN i ELSE i - n
        depth == IF i <= n /\ remainingDepth > 1 THEN 1 ELSE remainingDepth - 1
    IN IF i > 2 * n THEN [node |-> node, log |-> log]
       ELSE LET r == expandNode(Get(node.children)[j], Append(loc, <<"children", j>>),
                                depth, ctx, log)
            IN expandChildren([node EXCEPT !.children = Some([Get(@) EXCEPT ![j] = r.node])],
                              loc, i + 1, remainingDepth, ctx, r.log)

(* expandChildren handing remainingDepth on to the children undiminished *)
expandChildrenSameDepth(node, loc, i, remainingDepth, ctx, log) ==
    IF i > Len(Get(node.children)) THEN [node |-> node, log |-> log]
    ELSE LET r == expandNode(Get(node.children)[i], Append(loc, <<"children", i>>),
                             remainingDepth, ctx, log)
         IN expandChildren([node EXCEPT !.children = Some([Get(@) EXCEPT ![i] = r.node])],
                           loc, i + 1, remainingDepth, ctx, r.log)

(* for (const child of node.children) await expandNode(child, remainingDepth - 1) *)
expandChildren(node, loc, i, remainingDepth, ctx, log) ==
    IF i > Len(Get(node.children)) THEN [node |-> node, log |-> log]
    ELSE LET r == expandNode(Get(node.children)[i], Append(loc, <<"children", i>>),
                             remainingDepth - 1, ctx, log)
         IN expandChildren([node EXCEPT !.children = Some([Get(@) EXCEPT ![i] = r.node])],
                           loc, i + 1, remainingDepth, ctx, r.log)

(* expandNode fetching whenever node.children is missing or empty, whatever
   node.hasLoadedChildren says *)
expandNodeRefetch(node, loc, remainingDepth, ctx, log) ==
    IF remainingDepth <= 0 THEN [node |-> node, log |-> log]
    ELSE IF node.suppressChildren THEN [node |-> node, log |-> log]
    ELSE LET promoted == IF IsSome(node.hidden) /\ ~IsSome(node.children)
                         THEN [node EXCEPT !.children = node.hidden, !.hidden = None]
                         ELSE node
             fetches == ~IsSome(promoted.children) \/ Len(Get(promoted.children)) = 0
             indexes == IndexesFor(ctx, log)
             loaded == IF fetches
                       THEN [promoted EXCEPT
                               !.children = Some(fetchChildren(promoted.id, indexes.people,
                                                               indexes.children)),
                               !.hasLoadedChildren = TRUE]
                       ELSE promoted
             log2 == IF fetches THEN Append(log, [id |-> promoted.id, loc |-> loc]) ELSE log
         IN IF IsSome(loaded.children)
            THEN expandChildren(loaded, loc, 1, remainingDepth, ctx, log2)
            ELSE [node |-> loaded, log |-> log2]

expandNode(node, loc, remainingDepth, ctx, log) ==
    IF remainingDepth <= 0 THEN [node |-> node, log |-> log]
    ELSE IF node.suppressChildren THEN [node |-> node, log |-> log]
    ELSE LET promoted == IF IsSome(node.hidden) /\ ~IsSome(node.children)
                         THEN [node EXCEPT !.children = node.hidden, !.hidden = None]
                         ELSE node
             fetches == /\ ~IsSome(promoted.children) \/ Len(Get(promoted.children)) = 0
                        /\ ~promoted.hasLoadedChildren
             indexes == IndexesFor(ctx, log)
             loaded == IF fetches
                       THEN [promoted EXCEPT
                               !.children = Some(fetchChildren(promoted.id, indexes.people,
                                                               indexes.children)),
                               !.hasLoadedChildren = TRUE]
                       ELSE promoted
             log2 == IF fetches THEN Append(log, [id |-> promoted.id, loc |-> loc]) ELSE log
         IN IF IsSome(loaded.children)
            THEN expandChildren(loaded, loc, 1, remainingDepth, ctx, log2)
            ELSE [node |-> loaded, log |-> log2]

AUTO_EXPAND_DEPTH == 3

----------------------------------------------------------------------------
(* The datasets behind /data. people.json and children.json describe one
   family in which q is a child of both a and b, so that q and its descendants
   occur under two branches of the tree. root.json is the bare root or the root
   with three generations already in it. *)

PeopleJson ==
    << Entry("adam", "Adam", "Genesis", Some(50)),
       Entry("a", "A", "Genesis", Some(10)),
       Entry("b", "B", "Exodus", Some(50)),
       Entry("q", "Q", "Exodus", None),
       Entry("r", "R", "", None),
       Entry("s", "S", "", None) >>

ChildrenJson ==
    << <<"adam", Some(<<"a", "b">>)>>,
       <<"a", Some(<<"q">>)>>,
       <<"b", Some(<<"q">>)>>,
       <<"q", Some(<<"r">>)>>,
       <<"r", Some(<<"s">>)>> >>

AliasesJson ==
    << <<"Adam", <<"adam">>>>, <<" Q ", <<"q">>>>, <<"nobody", <<>>>> >>

WithChildren(node, list) == [node EXCEPT !.children = Some(list)]

RootBare == Node("adam", "Adam")

RootThreeGenerations ==
    WithChildren(Node("adam", "Adam"),
        << WithChildren(Node("a", "A"), << WithChildren(Node("q", "Q"), << Node("r", "R") >>) >>),
           WithChildren(Node("b", "B"), << WithChildren(Node("q", "Q"), << Node("r", "R") >>) >>) >>)

Dataset(root) ==
    [root |-> root, people |-> PeopleJson, children |-> ChildrenJson, aliases |-> AliasesJson]

Datasets == { Dataset(RootBare), Dataset(RootThreeGenerations) }

----------------------------------------------------------------------------
(* Tree instances. A handler holds a tree through a reference, and whether a
   write through that reference is seen by another holder depends on which
   object it is: the object in rootCache, the object the handler's closure
   captured as data, or an object of its own. *)

Obj(ref, val) == [ref |-> ref, val |-> val]

(* No copy: the same object again *)
CloneAlias(obj) == obj

(* JSON.parse(JSON.stringify(x)): a new object *)
Clone(obj) == Obj("fresh", JsonClone(obj.val))

hasChildren(node) ==
    \/ IsSome(node.children) /\ Len(Get(node.children)) > 0
    \/ IsSome(node.hidden) /\ Len(Get(node.hidden)) > 0

(* handleNodeClick without the return for a node flagged suppressChildren *)
ClickBranchNoSuppress(dataVal, node) ==
    IF node.id = dataVal.id THEN "select"
    ELSE IF node.isFilterRoot THEN "select"
    ELSE IF ~hasChildren(node) /\ ~node.hasLoadedChildren THEN "fetch"
    ELSE "toggle"

(* handleNodeClick: which branch a click on node takes *)
ClickBranch(dataVal, node) ==
    IF node.id = dataVal.id THEN "select"
    ELSE IF node.isFilterRoot THEN "select"
    ELSE IF node.suppressChildren THEN "select"
    ELSE IF ~hasChildren(node) /\ ~node.hasLoadedChildren THEN "fetch"
    ELSE "toggle"

(* The optimistic update writing an empty children list next to the flag *)
OptimisticFlagAndChildren(dataObj, id) ==
    LET updatedData == Clone(dataObj)
        target == findNodeById(updatedData.val, id)
    IN IF IsSome(target)
       THEN Obj(updatedData.ref,
                SetAt(updatedData.val, Get(target),
                      [NodeAt(updatedData.val, Get(target)) EXCEPT
                          !.children = Some(<<>>), !.hasLoadedChildren = TRUE]))
       ELSE updatedData

(* const updatedData = clone(data); const target = findNodeById(updatedData, node.id);
   if (target) target.hasLoadedChildren = true; *)
OptimisticFlag(dataObj, id) ==
    LET updatedData == Clone(dataObj)
        target == findNodeById(updatedData.val, id)
    IN IF IsSome(target)
       THEN Obj(updatedData.ref,
                SetAt(updatedData.val, Get(target),
                      [NodeAt(updatedData.val, Get(target)) EXCEPT !.hasLoadedChildren = TRUE]))
       ELSE updatedData

updateTreeData(rootObj, targetId, newChildren) ==
    LET newRoot == Clone(rootObj)
        target == findNodeById(newRoot.val, targetId)
    IN IF IsSome(target)
       THEN Obj(newRoot.ref,
                SetAt(newRoot.val, Get(target),
                      [NodeAt(newRoot.val, Get(target)) EXCEPT
                          !.children = Some(newChildren), !.hasLoadedChildren = TRUE]))
       ELSE newRoot

(* expandInitialGenerations: the expanded copy and the fetches it issued *)
expandInitialGenerations(rootObj, depth, ctx) ==
    LET cloned == Clone(rootObj)
        r == expandNode(cloned.val, <<>>, depth, ctx, <<>>)
    IN [ref |-> cloned.ref, val |-> r.node, log |-> r.log]

(* Collapse Toggle on one node *)
toggle(target) ==
    IF IsSome(target.children)
    THEN [target EXCEPT !.hidden = target.children, !.children = None]
    ELSE IF IsSome(target.hidden)
    THEN [target EXCEPT !.children = target.hidden, !.hidden = None]
    ELSE target

ToggleCollapse(dataObj, id) ==
    LET newRoot == Clone(dataObj)
        target == findNodeById(newRoot.val, id)
    IN IF IsSome(target)
       THEN Obj(newRoot.ref,
                SetAt(newRoot.val, Get(target), toggle(NodeAt(newRoot.val, Get(target)))))
       ELSE newRoot

(* handleSearch, the node is in the tree: for (const pathId of pathIds)
   un-collapse findNodeById(newData, pathId) *)
RECURSIVE RevealPath(_, _, _)
RevealPath(newDataVal, pathIds, i) ==
    IF i > Len(pathIds) THEN newDataVal
    ELSE LET nodeInTree == findNodeById(newDataVal, pathIds[i])
             n == NodeAt(newDataVal, Get(nodeInTree))
         IN IF IsSome(nodeInTree) /\ IsSome(n.hidden) /\ ~IsSome(n.children)
            THEN RevealPath(SetAt(newDataVal, Get(nodeInTree),
                                  [n EXCEPT !.children = n.hidden, !.hidden = None]),
                            pathIds, i + 1)
            ELSE RevealPath(newDataVal, pathIds, i + 1)

(* handleSearch, the node is not in the tree: the loop over ancestorPath.
   Returns the tree and the fetches issued. *)
RECURSIVE AttachAncestors(_, _, _, _, _, _)
AttachAncestors(newDataVal, ancestorPath, i, peopleIndex, childrenIndex, log) ==
    IF i > Len(ancestorPath) - 1 THEN [val |-> newDataVal, log |-> log]
    ELSE LET parentId == ancestorPath[i]
             childId == ancestorPath[i + 1]
             parentNode == findNodeById(newDataVal, parentId)
         IN IF ~IsSome(parentNode)
            THEN AttachAncestors(newDataVal, ancestorPath, i + 1, peopleIndex, childrenIndex, log)
            ELSE LET n == NodeAt(newDataVal, Get(parentNode))
                     promoted == IF IsSome(n.hidden) /\ ~IsSome(n.children)
                                 THEN [n EXCEPT !.children = n.hidden, !.hidden = None]
                                 ELSE n
                     fetches == /\ ~IsSome(promoted.children) \/ Len(Get(promoted.children)) = 0
                                /\ ~promoted.hasLoadedChildren
                     loaded == IF fetches
                               THEN [promoted EXCEPT
                                       !.children = Some(fetchChildren(parentId, peopleIndex,
                                                                       childrenIndex)),
                                       !.hasLoadedChildren = TRUE]
                               ELSE promoted
                     missing == /\ IsSome(loaded.children)
                                /\ ~\E k \in 1..Len(Get(loaded.children)) :
                                        Get(loaded.children)[k].id = childId
                     missingChild == buildPersonNodeById(childId, peopleIndex)
                     pushed == IF missing /\ IsSome(missingChild)
                               THEN [loaded EXCEPT
                                       !.children = Some(Append(Get(@), Get(missingChild)))]
                               ELSE loaded
                     log2 == IF fetches
                             THEN Append(log, [id |-> parentId, loc |-> Get(parentNode)])
                             ELSE log
                 IN AttachAncestors(SetAt(newDataVal, Get(parentNode), pushed),
                                    ancestorPath, i + 1, peopleIndex, childrenIndex, log2)

----------------------------------------------------------------------------
(* The asynchronous operations.

   JavaScript runs one task at a time: a user event or the arrival of a fetch
   response starts a task, and the task runs every continuation that is ready
   (the microtasks) before the next task starts. An operation in ops with an
   empty wait set is ready; while one is ready, or the auto-expand effect is
   due, no user event and no response is handled.

   A load call that finds its cache set resolves with the cached value; one
   that finds it null issues its own fetch, and when the response arrives it
   assigns the cache and resolves with what it assigned. *)

MaxEvents == 3
MaxOps == 2

Resources == {"root", "people", "children"}

CacheOf(r) ==
    CASE r = "root" -> rootCache
      [] r = "people" -> peopleIndexCache
      [] r = "children" -> childrenCache

(* What a load assigns to its cache: the index built from the JSON, or on a
   failed fetch an empty Map (for root.json: the tree, or null). *)
LoadResult(r, ok) ==
    CASE r = "root" -> IF ok THEN Some(store.root) ELSE None
      [] r = "people" -> IF ok THEN PeopleMap(store.people, EmptyMap) ELSE EmptyMap
      [] r = "children" -> IF ok THEN ChildrenMap(store.children, EmptyMap) ELSE EmptyMap
      [] r = "aliases" -> IF ok THEN AliasesMap(store.aliases, EmptyMap) ELSE EmptyMap

NoResults == [r \in Resources |-> None]

NewOp(kind, pc, arg, captured) ==
    [kind |-> kind, pc |-> pc, arg |-> arg, data |-> captured,
     wait |-> {}, got |-> NoResults, parents |-> None,
     node |-> None, ref |-> "fresh", pubs |-> 0]

(* loadRootTree: if (rootCache) return rootCache. loadPeopleIndex and
   loadChildrenIndex: if (cache) return cache. Otherwise the call fetches. *)
Cached(r) == IsSome(CacheOf(r))
CacheValue(r) == IF r = "root" THEN rootCache ELSE Get(CacheOf(r))

RequestLoads(op, rs) ==
    [op EXCEPT !.wait = @ \cup { r \in rs : ~Cached(r) },
               !.got = [r \in Resources |->
                          IF r \in rs /\ Cached(r) THEN Some(CacheValue(r)) ELSE op.got[r]]]

NoReady == \A i \in 1..Len(ops) : ops[i].wait # {}
EffectDue == IsSome(data) /\ ~hasAutoExpanded
Quiet == NoReady /\ ~EffectDue

RemoveAt(seq, i) == SubSeq(seq, 1, i - 1) \o SubSeq(seq, i + 1, Len(seq))

NoIndexes == [people |-> EmptyMap, children |-> EmptyMap]
CachedIndexes == [people |-> OrEmpty(peopleIndexCache), children |-> OrEmpty(childrenCache)]
OwnIndexes(op) == [people |-> OrEmpty(op.got["people"]), children |-> OrEmpty(op.got["children"])]

(* Whether expandNode reaches a fetchChildren call at all: the walk up to the
   first fetch does not read the indexes. *)
NeedsFetch(nodeVal, depth) ==
    expandNode(nodeVal, <<>>, depth, [first |-> NoIndexes, later |-> NoIndexes], <<>>).log # <<>>

(* setData(obj) *)
Publish(obj) ==
    /\ data' = Some(obj.val)
    /\ prev' = IF obj.ref = "data" THEN Some(obj.val) ELSE data
    /\ pubs' = pubs + 1
    /\ rootCache' = IF obj.ref = "rootCache" /\ IsSome(rootCache) THEN Some(obj.val)
                    ELSE rootCache

NoPublish == UNCHANGED <<data, prev, pubs, rootCache>>

----------------------------------------------------------------------------
(* Init: the state after the first render and its mount effect, which has
   called resetView: loadRootTree has issued the fetch of root.json. *)

IdleTree ==
    /\ fnTree = Node("", "")
    /\ fnQuery = ""
    /\ fnFound = None
    /\ fnPath = None
    /\ fnDone = FALSE

NoCall == [fn |-> "", arg |-> "", out |-> None]

IdleIndex ==
    /\ aliasesCache = None
    /\ ixFailed = {}
    /\ ixCall = NoCall

Init ==
    /\ IdleTree
    /\ IdleIndex
    /\ store \in Datasets
    /\ rootCache = None
    /\ peopleIndexCache = None
    /\ childrenCache = None
    /\ parentsCache = None
    /\ data = None
    /\ selectedPerson = None
    /\ selectedBook = None
    /\ highlightId = None
    /\ hasAutoExpanded = FALSE
    /\ ops = << [NewOp("resetView", "root", "", None) EXCEPT !.wait = {"root"}] >>
    /\ alerts = <<>>
    /\ prev = None
    /\ firstView = None
    /\ pubs = 0
    /\ done = [kind |-> "", swaps |-> 0]
    /\ events = 0

(* A fetch response arrives for operation i: the load assigns its cache and
   resolves. In handleSearch the children load was awaited by loadParentsIndex,
   which goes on to build and assign parentsCache. *)
FetchDone(i, r, ok) ==
    /\ Quiet
    /\ r \in ops[i].wait
    /\ LET res == LoadResult(r, ok)
           op == ops[i]
           buildsParents == op.kind = "handleSearch" /\ r = "children"
           built == ParentsMap(res, EmptyMap)
       IN /\ ops' = [ops EXCEPT ![i] =
                       [op EXCEPT !.wait = @ \ {r},
                                  !.got[r] = Some(res),
                                  !.parents = IF buildsParents THEN Some(built) ELSE @]]
          /\ rootCache' = IF r = "root" THEN res ELSE rootCache
          /\ peopleIndexCache' = IF r = "people" THEN Some(res) ELSE peopleIndexCache
          /\ childrenCache' = IF r = "children" THEN Some(res) ELSE childrenCache
          /\ parentsCache' = IF buildsParents THEN Some(built) ELSE parentsCache
    /\ UNCHANGED <<fnVars, ixVars, store, firstView, data, selectedPerson, selectedBook, highlightId,
                   hasAutoExpanded, alerts, prev, pubs, done, events>>

(* resetView(), from the Reset button; handleClearFilter() does
   setSelectedBook(null) and then the same. *)
ResetViewStart(clearFilter) ==
    /\ Quiet
    /\ events < MaxEvents
    /\ Len(ops) < MaxOps
    /\ events' = events + 1
    /\ selectedBook' = IF clearFilter THEN None ELSE selectedBook
    /\ ops' = Append(ops, RequestLoads(NewOp("resetView", "root", "", data), {"root"}))
    /\ UNCHANGED <<fnVars, ixVars, store, firstView, cacheVars, data, selectedPerson, highlightId,
                   hasAutoExpanded, alerts, prev, pubs, done>>

(* resetView after loadRootTree resolved: if (!root) return; otherwise
   expandInitialGenerations clones root and walks it until the first
   fetchChildren, whose two loads are then requested. *)
ResetViewRoot(i) ==
    /\ ~EffectDue
    /\ ops[i].kind = "resetView" /\ ops[i].pc = "root" /\ ops[i].wait = {}
    /\ LET root == Get(ops[i].got["root"])
       IN IF ~IsSome(root)
          THEN /\ ops' = RemoveAt(ops, i)
               /\ done' = [kind |-> "resetView", swaps |-> 0]
          ELSE LET cloned == Clone(Obj("rootCache", Get(root)))
                   op == [ops[i] EXCEPT !.pc = "expand", !.node = Some(cloned.val),
                                        !.ref = cloned.ref]
               IN /\ ops' = [ops EXCEPT ![i] =
                               IF NeedsFetch(cloned.val, AUTO_EXPAND_DEPTH)
                               THEN RequestLoads(op, {"people", "children"})
                               ELSE op]
                  /\ done' = done
    /\ UNCHANGED <<fnVars, ixVars, store, firstView, cacheVars, data, selectedPerson, selectedBook, highlightId,
                   hasAutoExpanded, alerts, prev, pubs, events>>

(* The rest of expandInitialGenerations once the loads of its first
   fetchChildren have resolved, and what the caller does with the result:
   resetView publishes and clears the selection, the auto-expand effect
   publishes. *)
ExpandFinish(i) ==
    /\ ~EffectDue
    /\ ops[i].kind \in {"resetView", "autoExpand"} /\ ops[i].pc = "expand" /\ ops[i].wait = {}
    /\ LET op == ops[i]
           r == expandNode(Get(op.node), <<>>, AUTO_EXPAND_DEPTH,
                           [first |-> OwnIndexes(op), later |-> CachedIndexes], <<>>)
       IN /\ Publish(Obj(op.ref, r.node))
          /\ firstView' = IF op.kind = "resetView" /\ ~IsSome(firstView)
                           THEN Some(r.node) ELSE firstView
    /\ ops' = RemoveAt(ops, i)
    /\ done' = [kind |-> ops[i].kind, swaps |-> ops[i].pubs + 1]
    /\ selectedPerson' = IF ops[i].kind = "resetView" THEN None ELSE selectedPerson
    /\ highlightId' = IF ops[i].kind = "resetView" THEN None ELSE highlightId
    /\ UNCHANGED <<fnVars, ixVars, store, peopleIndexCache, childrenCache, parentsCache,
                   selectedBook, hasAutoExpanded, alerts, events>>

(* useEffect(..., [data]): the first time data is set, expand it again. *)
AutoExpandEffect ==
    /\ EffectDue
    /\ hasAutoExpanded' = TRUE
    /\ LET cloned == Clone(Obj("data", Get(data)))
           op == [NewOp("autoExpand", "expand", "", data) EXCEPT
                     !.node = Some(cloned.val), !.ref = cloned.ref]
       IN ops' = Append(ops, IF NeedsFetch(cloned.val, AUTO_EXPAND_DEPTH)
                             THEN RequestLoads(op, {"people", "children"})
                             ELSE op)
    /\ UNCHANGED <<fnVars, ixVars, store, firstView, cacheVars, data, selectedPerson, selectedBook, highlightId,
                   alerts, prev, pubs, done, events>>

(* The nodes TreeGraph draws, and so the nodes a user can click: those
   reached from the root through visible children. *)
RECURSIVE VisibleLocs(_)
VisibleLocs(node) ==
    {<<>>} \cup UNION { { << <<"children", i>> >> \o l : l \in VisibleLocs(Get(node.children)[i]) }
                        : i \in 1..Len(OrEmpty(node.children)) }

(* handleNodeClick(node) up to its await, node being the node drawn at loc *)
NodeClick(loc) ==
    /\ Quiet
    /\ IsSome(data)
    /\ events < MaxEvents
    /\ loc \in VisibleLocs(Get(data))
    /\ LET node == NodeAt(Get(data), loc)
           branch == ClickBranch(Get(data), node)
           dataObj == Obj("data", Get(data))
       IN /\ selectedPerson' = Some(node)
          /\ highlightId' = Some(node.id)
          /\ CASE branch = "select" ->
                    /\ NoPublish
                    /\ ops' = ops
                    /\ done' = [kind |-> "handleNodeClick", swaps |-> 0]
               [] branch = "toggle" ->
                    /\ Publish(ToggleCollapse(dataObj, node.id))
                    /\ ops' = ops
                    /\ done' = [kind |-> "handleNodeClick", swaps |-> 1]
               [] branch = "fetch" ->
                    /\ Len(ops) < MaxOps
                    /\ done' = done
                    /\ Publish(OptimisticFlag(dataObj, node.id))
                    /\ ops' = Append(ops,
                          RequestLoads([NewOp("handleNodeClick", "fetch", node.id, data)
                                          EXCEPT !.pubs = 1],
                                       {"people", "children"}))
    /\ events' = events + 1
    /\ UNCHANGED <<fnVars, ixVars, store, firstView, peopleIndexCache, childrenCache, parentsCache,
                   selectedBook, hasAutoExpanded, alerts>>

(* handleNodeClick after await fetchChildren(node.id): data is the tree the
   handler's closure captured when the click happened. *)
NodeClickFetched(i) ==
    /\ ~EffectDue
    /\ ops[i].kind = "handleNodeClick" /\ ops[i].wait = {}
    /\ LET op == ops[i]
           children == fetchChildren(op.arg, Get(op.got["people"]), Get(op.got["children"]))
       IN IF Len(children) > 0
          THEN /\ Publish(updateTreeData(Obj("data", Get(op.data)), op.arg, children))
               /\ done' = [kind |-> "handleNodeClick", swaps |-> op.pubs + 1]
          ELSE /\ NoPublish
               /\ done' = [kind |-> "handleNodeClick", swaps |-> op.pubs]
    /\ ops' = RemoveAt(ops, i)
    /\ UNCHANGED <<fnVars, ixVars, store, firstView, peopleIndexCache, childrenCache, parentsCache,
                   selectedPerson, selectedBook, highlightId, hasAutoExpanded, alerts, events>>

SearchIds == {"q", "s", "zz"}

(* handleSearch(id) up to its await: either the node is in the tree and its
   path is revealed, or findAncestorPath is called, whose Promise.all starts
   loadParentsIndex (cached, or built from the children index) and
   loadPeopleIndex. *)
Search(id) ==
    /\ Quiet
    /\ IsSome(data)
    /\ events < MaxEvents
    /\ events' = events + 1
    /\ LET pathIds == findPathToNode(Get(data), id, <<>>)
       IN IF IsSome(pathIds)
          THEN LET newData == Clone(Obj("data", Get(data)))
                   revealed == Obj(newData.ref, RevealPath(newData.val, Get(pathIds), 1))
                   targetNode == findNodeById(revealed.val, id)
               IN /\ Publish(revealed)
                  /\ done' = [kind |-> "handleSearch", swaps |-> 1]
                  /\ selectedPerson' = IF IsSome(targetNode)
                                       THEN Some(NodeAt(revealed.val, Get(targetNode)))
                                       ELSE selectedPerson
                  /\ highlightId' = IF IsSome(targetNode)
                                    THEN Some(NodeAt(revealed.val, Get(targetNode)).id)
                                    ELSE highlightId
                  /\ UNCHANGED <<ops, parentsCache>>
          ELSE LET op == NewOp("handleSearch", "ancestors", id, data)
                   builds == ~IsSome(parentsCache) /\ IsSome(childrenCache)
                   built == ParentsMap(Get(childrenCache), EmptyMap)
                   withParents ==
                       IF IsSome(parentsCache) THEN [op EXCEPT !.parents = parentsCache]
                       ELSE IF builds THEN [op EXCEPT !.parents = Some(built)]
                       ELSE RequestLoads(op, {"children"})
               IN /\ Len(ops) < MaxOps
                  /\ ops' = Append(ops, RequestLoads(withParents, {"people"}))
                  /\ parentsCache' = IF builds THEN Some(built) ELSE parentsCache
                  /\ NoPublish
                  /\ UNCHANGED <<selectedPerson, highlightId, done>>
    /\ UNCHANGED <<fnVars, ixVars, store, firstView, peopleIndexCache, childrenCache, selectedBook,
                   hasAutoExpanded, alerts>>

(* handleSearch after await findAncestorPath(id, rootId) *)
SearchAncestors(i) ==
    /\ ~EffectDue
    /\ ops[i].kind = "handleSearch" /\ ops[i].wait = {}
    /\ LET op == ops[i]
           id == op.arg
           ancestorPath == findAncestorPath(id, Get(op.data).id, Get(op.parents),
                                            Get(op.got["people"]))
           newData == Clone(Obj("data", Get(op.data)))
           attached == Obj(newData.ref,
                           AttachAncestors(newData.val, Get(ancestorPath), 1,
                                           CachedIndexes.people, CachedIndexes.children,
                                           <<>>).val)
           targetNode == findNodeById(attached.val, id)
       IN IF IsSome(ancestorPath)
          THEN /\ Publish(attached)
               /\ done' = [kind |-> "handleSearch", swaps |-> 1]
               /\ IF IsSome(targetNode)
                  THEN /\ selectedPerson' = Some(NodeAt(attached.val, Get(targetNode)))
                       /\ highlightId' = Some(NodeAt(attached.val, Get(targetNode)).id)
                       /\ alerts' = alerts
                  ELSE /\ alerts' = Append(alerts, "search")
                       /\ UNCHANGED <<selectedPerson, highlightId>>
          ELSE /\ NoPublish
               /\ done' = [kind |-> "handleSearch", swaps |-> 0]
               /\ alerts' = Append(alerts, "search")
               /\ UNCHANGED <<selectedPerson, highlightId>>
    /\ ops' = RemoveAt(ops, i)
    /\ UNCHANGED <<fnVars, ixVars, store, firstView, peopleIndexCache, childrenCache, parentsCache,
                   selectedBook, hasAutoExpanded, events>>

Books == {"Exodus", "Numbers"}

(* handleBookClick(book) up to await buildBookFilteredTree(book) *)
BookClick(book) ==
    /\ Quiet
    /\ events < MaxEvents
    /\ Len(ops) < MaxOps
    /\ events' = events + 1
    /\ selectedBook' = Some(book)
    /\ selectedPerson' = None
    /\ highlightId' = None
    /\ ops' = Append(ops, RequestLoads(NewOp("handleBookClick", "build", book, data),
                                       {"people", "children"}))
    /\ UNCHANGED <<fnVars, ixVars, store, firstView, cacheVars, data, hasAutoExpanded, alerts, prev, pubs, done>>

(* handleBookClick after buildBookFilteredTree resolved: the filtered tree is
   built from the indexes its own loads returned; expandInitialGenerations then
   reads the caches, which are set by now. *)
BookBuilt(i) ==
    /\ ~EffectDue
    /\ ops[i].kind = "handleBookClick" /\ ops[i].wait = {}
    /\ LET op == ops[i]
           filteredTree == buildBookFilteredTree(op.arg, Get(op.got["people"]),
                                                 Get(op.got["children"]))
           expanded == expandInitialGenerations(Obj("fresh", Get(filteredTree)),
                                                AUTO_EXPAND_DEPTH,
                                                [first |-> CachedIndexes, later |-> CachedIndexes])
       IN IF IsSome(filteredTree)
          THEN /\ Publish(Obj(expanded.ref, expanded.val))
               /\ alerts' = alerts
               /\ done' = [kind |-> "handleBookClick", swaps |-> 1]
          ELSE /\ NoPublish
               /\ alerts' = Append(alerts, "book")
               /\ done' = [kind |-> "handleBookClick", swaps |-> 0]
    /\ ops' = RemoveAt(ops, i)
    /\ UNCHANGED <<fnVars, ixVars, store, firstView, peopleIndexCache, childrenCache, parentsCache,
                   selectedPerson, selectedBook, highlightId, hasAutoExpanded, events>>

Next ==
    \/ \E i \in 1..Len(ops), r \in Resources, ok \in BOOLEAN : FetchDone(i, r, ok)
    \/ \E clearFilter \in BOOLEAN : ResetViewStart(clearFilter)
    \/ \E i \in 1..Len(ops) : ResetViewRoot(i)
    \/ \E i \in 1..Len(ops) : ExpandFinish(i)
    \/ AutoExpandEffect
    \/ \E loc \in (IF IsSome(data) THEN VisibleLocs(Get(data)) ELSE {}) : NodeClick(loc)
    \/ \E i \in 1..Len(ops) : NodeClickFetched(i)
    \/ \E id \in SearchIds : Search(id)
    \/ \E i \in 1..Len(ops) : SearchAncestors(i)
    \/ \E book \in Books : BookClick(book)
    \/ \E i \in 1..Len(ops) : BookBuilt(i)

Spec == Init /\ [][Next]_vars

----------------------------------------------------------------------------
(* SpecTree: findNodeById and findPathToNode applied to bounded trees.

   The input tree is any tree of at most MaxNodes nodes over TreeKeys: a node
   may hold visible children, hidden children or both (the functions read both
   fields whatever the state of the node), the same identifier may occur at
   several nodes, and one display name equals another node's identifier. *)

MaxNodes == 4

TreeKeys == { <<"a", "A">>, <<"b", "a">>, <<"c", "C">> }
TreeQueries == {"a", "b", "C", "zz"}

RECURSIVE AllLocs(_)
AllLocs(node) ==
    {<<>>}
    \cup UNION { { << <<"children", i>> >> \o l : l \in AllLocs(Get(node.children)[i]) }
                 : i \in 1..Len(OrEmpty(node.children)) }
    \cup UNION { { << <<"_children", i>> >> \o l : l \in AllLocs(Get(node.hidden)[i]) }
                 : i \in 1..Len(OrEmpty(node.hidden)) }

NodeCount(root) == Cardinality(AllLocs(root))

(* The tree with one more leaf, as the last visible or last hidden child of the
   node at loc. *)
AttachLeaf(root, loc, field, leaf) ==
    LET n == NodeAt(root, loc)
    IN SetAt(root, loc,
             IF field = "children"
             THEN [n EXCEPT !.children = Some(Append(OrEmpty(n.children), leaf))]
             ELSE [n EXCEPT !.hidden = Some(Append(OrEmpty(n.hidden), leaf))])

IdleView ==
    /\ data = None
    /\ selectedPerson = None
    /\ selectedBook = None
    /\ highlightId = None
    /\ hasAutoExpanded = FALSE
    /\ ops = <<>>
    /\ alerts = <<>>
    /\ prev = None
    /\ firstView = None
    /\ pubs = 0
    /\ done = [kind |-> "", swaps |-> 0]
    /\ events = 0

InitTree ==
    /\ IdleView
    /\ IdleIndex
    /\ store = Dataset(RootBare)
    /\ rootCache = None
    /\ peopleIndexCache = None
    /\ childrenCache = None
    /\ parentsCache = None
    /\ fnTree \in { Node(k[1], k[2]) : k \in TreeKeys }
    /\ fnQuery \in TreeQueries
    /\ fnFound = None
    /\ fnPath = None
    /\ fnDone = FALSE

TreeGrow ==
    /\ ~fnDone
    /\ NodeCount(fnTree) < MaxNodes
    /\ \E loc \in AllLocs(fnTree), field \in {"children", "_children"}, k \in TreeKeys :
          fnTree' = AttachLeaf(fnTree, loc, field, Node(k[1], k[2]))
    /\ UNCHANGED <<fnQuery, fnFound, fnPath, fnDone, store, cacheVars, ixVars, appVars>>

TreeFind ==
    /\ ~fnDone
    /\ fnFound' = findNodeById(fnTree, fnQuery)
    /\ fnPath' = findPathToNode(fnTree, fnQuery, <<>>)
    /\ fnDone' = TRUE
    /\ UNCHANGED <<fnTree, fnQuery, store, cacheVars, ixVars, appVars>>

NextTree == TreeGrow \/ TreeFind

SpecTree == InitTree /\ [][NextTree]_vars

----------------------------------------------------------------------------
(* SpecIndex: the service functions applied once every load has completed,
   each load having succeeded or failed.

   Init is the module state after loadPeopleIndex, loadChildrenIndex,
   loadAliasesData and loadParentsIndex have run, one call each: a load in
   ixFailed took its catch branch. Each action is one call of an exported
   function, which finds every cache set. *)

IndexResources == {"people", "children", "aliases"}

IndexIds == {"adam", "a", "q", "s", "zz"}
IndexQueries == {"", " q ", "ADAM", "q", "nobody", "zz"}
IndexBooks == {"", "Exodus", "Numbers"}

InitIndex ==
    /\ IdleTree
    /\ IdleView
    /\ store \in Datasets
    /\ ixFailed \in SUBSET IndexResources
    /\ ixCall = NoCall
    /\ rootCache = Some(store.root)
    /\ peopleIndexCache = Some(LoadResult("people", "people" \notin ixFailed))
    /\ childrenCache = Some(LoadResult("children", "children" \notin ixFailed))
    /\ aliasesCache = Some(LoadResult("aliases", "aliases" \notin ixFailed))
    /\ parentsCache = Some(ParentsMap(Get(childrenCache), EmptyMap))

Call(fn, arg, out) == [fn |-> fn, arg |-> arg, out |-> out]

IndexFetchChildren(id) ==
    /\ ixCall' = Call("fetchChildren", id,
                      fetchChildren(id, Get(peopleIndexCache), Get(childrenCache)))
    /\ UNCHANGED <<fnVars, store, cacheVars, aliasesCache, ixFailed, appVars>>

IndexSearchPerson(query) ==
    /\ ixCall' = Call("searchPerson", query,
                      searchPerson(query, Get(aliasesCache), Get(peopleIndexCache)))
    /\ UNCHANGED <<fnVars, store, cacheVars, aliasesCache, ixFailed, appVars>>

IndexFindAncestorPath(targetId) ==
    /\ ixCall' = Call("findAncestorPath", targetId,
                      findAncestorPath(targetId, store.root.id, Get(parentsCache),
                                       Get(peopleIndexCache)))
    /\ UNCHANGED <<fnVars, store, cacheVars, aliasesCache, ixFailed, appVars>>

IndexBuildBookFilteredTree(book) ==
    /\ ixCall' = Call("buildBookFilteredTree", book,
                      buildBookFilteredTree(book, Get(peopleIndexCache), Get(childrenCache)))
    /\ UNCHANGED <<fnVars, store, cacheVars, aliasesCache, ixFailed, appVars>>

(* expandInitialGenerations(root, AUTO_EXPAND_DEPTH), as resetView calls it *)
IndexExpandRoot ==
    /\ ixCall' = Call("expandInitialGenerations", "",
                      expandInitialGenerations(
                          Obj("rootCache", Get(rootCache)), AUTO_EXPAND_DEPTH,
                          [first |-> CachedIndexes, later |-> CachedIndexes]).val)
    /\ UNCHANGED <<fnVars, store, cacheVars, aliasesCache, ixFailed, appVars>>

NextIndex ==
    \/ \E id \in IndexIds : IndexFetchChildren(id)
    \/ \E query \in IndexQueries : IndexSearchPerson(query)
    \/ \E targetId \in IndexIds : IndexFindAncestorPath(targetId)
    \/ \E book \in IndexBooks : IndexBuildBookFilteredTree(book)
    \/ IndexExpandRoot

SpecIndex == InitIndex /\ [][NextIndex]_vars

----------------------------------------------------------------------------
(* Depth-first pre-order on locations: a node before its descendants, the
   visible children of a node before its hidden children, a child before its
   later siblings. *)

StepBefore(s, t) ==
    \/ s[1] = "children" /\ t[1] = "_children"
    \/ s[1] = t[1] /\ s[2] < t[2]

RECURSIVE LocBefore(_, _)
LocBefore(l1, l2) ==
    IF l1 = <<>> THEN l2 # <<>>
    ELSE IF l2 = <<>> THEN FALSE
    ELSE IF l1[1] = l2[1] THEN LocBefore(Tail(l1), Tail(l2))
    ELSE StepBefore(l1[1], l2[1])

Matches(root, id) ==
    { l \in AllLocs(root) : NodeAt(root, l).id = id \/ NodeAt(root, l).name = id }

(* The identifiers of the nodes from the root down to the node at loc. *)
IdsAlong(root, loc) ==
    [i \in 1..(Len(loc) + 1) |-> NodeAt(root, SubSeq(loc, 1, i - 1)).id]

HasHiddenStep(loc) == \E i \in 1..Len(loc) : loc[i][1] = "_children"

(* C9: findNodeById(root, id) returns null exactly when no node of the tree,
   in a visible or in a hidden branch, has id as its identifier or as its
   display name; otherwise it returns the matching node that comes first in
   depth-first pre-order (node before descendants, visible children before
   hidden children). *)
C9_FindFirstPreOrder ==
    fnDone =>
        LET m == Matches(fnTree, fnQuery)
        IN IF m = {} THEN fnFound = None
           ELSE /\ IsSome(fnFound)
                /\ Get(fnFound) \in m
                /\ \A l \in m : l = Get(fnFound) \/ LocBefore(Get(fnFound), l)

(* C9 witness: the node returned sits in a collapsed branch and is one of
   several matches. *)
C9_Witness ==
    /\ fnDone
    /\ IsSome(fnFound)
    /\ HasHiddenStep(Get(fnFound))
    /\ Cardinality(Matches(fnTree, fnQuery)) >= 2

(* C10: findPathToNode(root, id) returns null exactly when findNodeById does;
   otherwise it returns the identifiers from the root (first element root.id)
   down the parent-child chain, through visible or hidden children, to the
   node findNodeById returns (last element that node's id). *)
C10_PathToFoundNode ==
    fnDone =>
        /\ (fnPath = None) <=> (fnFound = None)
        /\ IsSome(fnPath) =>
              /\ Get(fnPath)[1] = fnTree.id
              /\ Get(fnPath)[Len(Get(fnPath))] = NodeAt(fnTree, Get(fnFound)).id
              /\ Get(fnPath) = IdsAlong(fnTree, Get(fnFound))

(* C10 witness: a path of three identifiers that runs through a hidden
   branch. *)
C10_Witness ==
    /\ fnDone
    /\ IsSome(fnPath)
    /\ Len(Get(fnPath)) >= 3
    /\ HasHiddenStep(Get(fnFound))

----------------------------------------------------------------------------
(* Claims about the application state machine (Spec) *)

Populated(o) == IsSome(o) /\ Len(Get(o)) > 0

BothPopulated(root) ==
    \E l \in AllLocs(root) :
        Populated(NodeAt(root, l).children) /\ Populated(NodeAt(root, l).hidden)

(* C1: in every tree passed to setData, no node has visible children and
   hidden children populated at the same time. *)
C1_NeverBothPopulated ==
    IsSome(data) => ~BothPopulated(Get(data))

(* C1 failing input: a node holding both lists, the visible one a fetch
   result attached while the hidden one was there. *)
C1_Reached ==
    /\ IsSome(data)
    /\ BothPopulated(Get(data))

----------------------------------------------------------------------------
(* C2 *)

ExpandCtx == [first |-> CachedIndexes, later |-> CachedIndexes]

(* The node of the tree before an operation that the node at loc of the
   operation's working copy was when the operation started: the copy differs
   from the tree by hidden lists made visible, fetched lists and appended
   nodes. None for a node the operation created. *)
RECURSIVE OriginOf(_, _)
OriginOf(node, loc) ==
    IF loc = <<>> THEN Some(node)
    ELSE LET list == IF loc[1][1] = "_children" THEN OrEmpty(node.hidden)
                     ELSE IF Populated(node.children) THEN Get(node.children)
                     ELSE IF ~IsSome(node.children) THEN OrEmpty(node.hidden)
                     ELSE <<>>
         IN IF loc[1][2] <= Len(list) THEN OriginOf(list[loc[1][2]], Tail(loc)) ELSE None

AskersUnloaded(before, log) ==
    \A k \in 1..Len(log) :
        LET origin == OriginOf(before, log[k].loc)
        IN IsSome(origin) => ~Get(origin).hasLoadedChildren

(* The fetches handleSearch(id) issues on the tree d while it attaches the
   ancestor path *)
SearchLog(d, id) ==
    IF IsSome(findPathToNode(d, id, <<>>)) THEN <<>>
    ELSE LET parents == IF IsSome(parentsCache) THEN Get(parentsCache)
                        ELSE ParentsMap(CachedIndexes.children, EmptyMap)
             ancestorPath == findAncestorPath(id, d.id, parents, CachedIndexes.people)
         IN IF IsSome(ancestorPath)
            THEN AttachAncestors(JsonClone(d), Get(ancestorPath), 1, CachedIndexes.people,
                                 CachedIndexes.children, <<>>).log
            ELSE <<>>

(* C2: a node with hasLoadedChildren = true is never fetched for again. On
   every published tree: a click on a node whose flag is set does not take the
   fetching branch; every fetch that expandInitialGenerations(data, 3) or the
   ancestor attachment of handleSearch issues is asked for by a node whose
   flag was not set; and expanding the result of an expansion again issues no
   fetch and returns the same tree. *)
C2_NoRefetchOnceLoaded ==
    IsSome(data) =>
        LET d == Get(data)
            e1 == expandInitialGenerations(Obj("data", d), AUTO_EXPAND_DEPTH, ExpandCtx)
            e2 == expandInitialGenerations(Obj("fresh", e1.val), AUTO_EXPAND_DEPTH, ExpandCtx)
        IN /\ \A loc \in VisibleLocs(d) :
                 NodeAt(d, loc).hasLoadedChildren => ClickBranch(d, NodeAt(d, loc)) # "fetch"
           /\ AskersUnloaded(d, e1.log)
           /\ \A id \in SearchIds : AskersUnloaded(d, SearchLog(d, id))
           /\ e2.log = <<>>
           /\ e2.val = e1.val

(* C2 witness: the auto-expand effect has expanded the tree resetView had
   expanded and published the same tree again, with loaded nodes in it. *)
C2_Witness ==
    /\ done.kind = "autoExpand"
    /\ IsSome(data)
    /\ prev = data
    /\ \E loc \in VisibleLocs(Get(data)) :
          /\ NodeAt(Get(data), loc).hasLoadedChildren
          /\ Populated(NodeAt(Get(data), loc).children)

----------------------------------------------------------------------------
(* C3: while the fetch of a click on identifier x is pending and the tree that
   click flagged is the current one, a click on a drawn node with identifier x
   finds the flag set and starts no second fetch. *)
C3_SecondClickSkipsFetch ==
    \A i \in 1..Len(ops) :
        (/\ ops[i].kind = "handleNodeClick"
         /\ data = Some(OptimisticFlag(Obj("data", Get(ops[i].data)), ops[i].arg).val))
        => \A loc \in VisibleLocs(Get(data)) :
              NodeAt(Get(data), loc).id = ops[i].arg
              => ClickBranch(Get(data), NodeAt(Get(data), loc)) # "fetch"

(* C3 failing input: two fetches for the same identifier pending at once *)
C3_Reached ==
    \E i, j \in 1..Len(ops) :
        /\ i < j
        /\ ops[i].kind = "handleNodeClick"
        /\ ops[j].kind = "handleNodeClick"
        /\ ops[i].arg = ops[j].arg

----------------------------------------------------------------------------
(* C4: every setData publishes a copy: the instance that was current before
   reads after the call as it read before, and the tree in rootCache, once
   loaded, stays as it was loaded. *)
C4_StructuralCopyFrame ==
    [][ /\ pubs' # pubs => prev' = data
        /\ IsSome(rootCache) /\ IsSome(rootCache') => rootCache' = rootCache ]_vars

(* C4 witness: a click, a search or a filter has published a tree that differs
   from the one before it and from the cached root. *)
C4_Witness ==
    /\ done.kind \in {"handleNodeClick", "handleSearch", "handleBookClick"}
    /\ done.swaps >= 1
    /\ IsSome(prev)
    /\ prev # data
    /\ IsSome(rootCache)
    /\ rootCache # data

----------------------------------------------------------------------------
(* C5 as stated: every operation calls setData at most once, and not before
   its result is complete. *)
C5_SingleAtomicSwap ==
    /\ done.swaps <= 1
    /\ \A i \in 1..Len(ops) : ops[i].pubs = 0

RECURSIVE EraseFlags(_)
EraseFlags(node) ==
    [node EXCEPT
        !.hasLoadedChildren = FALSE,
        !.children = IF IsSome(@) THEN Some([k \in 1..Len(Get(@)) |-> EraseFlags(Get(@)[k])])
                     ELSE None,
        !.hidden = IF IsSome(@) THEN Some([k \in 1..Len(Get(@)) |-> EraseFlags(Get(@)[k])])
                   ELSE None]

(* C5 amended: an operation other than a click that loads children calls
   setData at most once, when its result is complete. A click that loads
   children calls it before the fetch, with a copy of the tree that differs
   from it in hasLoadedChildren flags only, and once more when the fetch
   returned children. *)
C5_SwapsPerOperation ==
    /\ done.swaps <= (IF done.kind = "handleNodeClick" THEN 2 ELSE 1)
    /\ \A i \in 1..Len(ops) :
          IF ops[i].kind = "handleNodeClick"
          THEN /\ ops[i].pubs = 1
               /\ EraseFlags(OptimisticFlag(Obj("data", Get(ops[i].data)), ops[i].arg).val)
                    = EraseFlags(Get(ops[i].data))
          ELSE ops[i].pubs = 0

(* C5 witness: a click has published twice, the flag and then the children. *)
C5_Witness ==
    /\ done.kind = "handleNodeClick"
    /\ done.swaps = 2

----------------------------------------------------------------------------
(* C6: once the people index or the children index is cached, every later
   load call returns that same index: the cache, which is what a later call
   returns, never changes again. *)
C6_CacheStable ==
    [][ /\ IsSome(peopleIndexCache) => peopleIndexCache' = peopleIndexCache
        /\ IsSome(childrenCache) => childrenCache' = childrenCache ]_vars

(* C6 failing input: a failed load has cached the empty index while another
   fetch of the same resource is still on its way. *)
C6_Reached ==
    /\ childrenCache = Some(EmptyMap)
    /\ \E i \in 1..Len(ops) : "children" \in ops[i].wait

----------------------------------------------------------------------------
(* C7 (SpecIndex) *)

UsedBy(fn) ==
    CASE fn = "fetchChildren" -> {"people", "children"}
      [] fn = "searchPerson" -> {"aliases", "people"}
      [] fn = "findAncestorPath" -> {"children", "people"}
      [] fn = "buildBookFilteredTree" -> {"people", "children"}
      [] fn = "expandInitialGenerations" -> {"children"}
      [] OTHER -> {}

FailedIndexesEmpty ==
    /\ "people" \in ixFailed => peopleIndexCache = Some(EmptyMap)
    /\ "children" \in ixFailed => childrenCache = Some(EmptyMap) /\ parentsCache = Some(EmptyMap)
    /\ "aliases" \in ixFailed => aliasesCache = Some(EmptyMap)

RootEmptyAndLoaded(out) ==
    /\ out.id = store.root.id
    /\ out.children = Some(<<>>)
    /\ out.hasLoadedChildren

(* C7 as stated: a failed load yields an empty index, and every operation
   built on a resource whose load failed returns an absent or empty result:
   fetchChildren [], searchPerson, findAncestorPath and buildBookFilteredTree
   null, and with the children load failed the expansion of the root to depth
   3 the root with an empty children list and hasLoadedChildren = true. *)
C7_FailedLoadEmptyResult ==
    /\ FailedIndexesEmpty
    /\ UsedBy(ixCall.fn) \cap ixFailed # {} =>
          IF ixCall.fn = "expandInitialGenerations" THEN RootEmptyAndLoaded(ixCall.out)
          ELSE ixCall.out = <<>>

(* C7 amended: a failed load yields an empty index. fetchChildren returns []
   when the people or the children load failed; buildBookFilteredTree returns
   null when the people load failed; findAncestorPath returns null for a
   target other than the root when the children load failed; searchPerson
   returns null when the aliases and the people load both failed; and with the
   children load failed, expanding a root that has no children yet to depth 3
   returns the root with an empty children list and hasLoadedChildren = true. *)
C7_FailedLoadDegrades ==
    /\ FailedIndexesEmpty
    /\ ixCall.fn = "fetchChildren" /\ ixFailed \cap {"people", "children"} # {}
          => ixCall.out = <<>>
    /\ ixCall.fn = "buildBookFilteredTree" /\ "people" \in ixFailed
          => ixCall.out = None
    /\ ixCall.fn = "findAncestorPath" /\ "children" \in ixFailed /\ ixCall.arg # store.root.id
          => ixCall.out = None
    /\ ixCall.fn = "searchPerson" /\ {"aliases", "people"} \subseteq ixFailed
          => ixCall.out = None
    /\ (ixCall.fn = "expandInitialGenerations" /\ "children" \in ixFailed
           /\ ~hasChildren(store.root) /\ ~store.root.hasLoadedChildren)
          => RootEmptyAndLoaded(ixCall.out)

(* C7 witness: the children load failed and the bare root has been expanded *)
C7_Witness ==
    /\ "children" \in ixFailed
    /\ ixCall.fn = "expandInitialGenerations"
    /\ ~hasChildren(store.root)
    /\ RootEmptyAndLoaded(ixCall.out)

----------------------------------------------------------------------------
(* C8: the parents index is the exact inverse of the loaded children index
   (c is listed under p in the children index exactly when p is listed under c
   in the parents index) and lists each parent at most once per child. *)
Listed(index, key, x) == Includes(OrEmpty(MapGet(index, key)), x)

NoDuplicates(list) == \A i, j \in 1..Len(list) : list[i] = list[j] => i = j

C8_ParentsInverse ==
    (IsSome(parentsCache) /\ IsSome(childrenCache)) =>
        LET childrenIndex == Get(childrenCache)
            parentsIndex == Get(parentsCache)
            ids == MapKeys(childrenIndex) \cup MapKeys(parentsIndex)
                   \cup UNION { { childrenIndex[k][2][n] : n \in 1..Len(childrenIndex[k][2]) }
                                : k \in 1..Len(childrenIndex) }
                   \cup UNION { { parentsIndex[k][2][n] : n \in 1..Len(parentsIndex[k][2]) }
                                : k \in 1..Len(parentsIndex) }
        IN /\ \A p \in ids, c \in ids :
                 Listed(childrenIndex, p, c) <=> Listed(parentsIndex, c, p)
           /\ \A k \in 1..Len(parentsIndex) : NoDuplicates(parentsIndex[k][2])

(* C8 failing input: the parents index was built from the empty index a failed
   load left, and a later response filled the children cache. *)
C8_Reached ==
    /\ parentsCache = Some(EmptyMap)
    /\ IsSome(childrenCache)
    /\ Get(childrenCache) # EmptyMap

----------------------------------------------------------------------------
(* C11: the collapse toggle on any node of a published tree. With visible
   children populated it moves them to hidden and clears visible; otherwise
   with hidden children populated it moves them to visible and clears hidden;
   with neither populated it changes no list content. Applied twice it gives
   the node back: same lists, same visible/hidden state, same
   hasLoadedChildren. *)
ToggleContract(n) ==
    LET once == toggle(n)
        twice == toggle(once)
    IN /\ Populated(n.children)
            => once.hidden = n.children /\ once.children = None
       /\ (~Populated(n.children) /\ Populated(n.hidden))
            => once.children = n.hidden /\ ~Populated(once.hidden)
       /\ (~Populated(n.children) /\ ~Populated(n.hidden))
            => ~Populated(once.children) /\ ~Populated(once.hidden)
       /\ once.hasLoadedChildren = n.hasLoadedChildren
       /\ twice = n

C11_ToggleRoundTrip ==
    IsSome(data) => \A loc \in AllLocs(Get(data)) : ToggleContract(NodeAt(Get(data), loc))

----------------------------------------------------------------------------
(* SpecAlias: searchPerson over bounded aliases.json files.

   aliases.json is any object of at most MaxAliases entries: raw keys that
   differ in case or surrounding white space only, a blank key, and lists that
   are empty or hold one or two identifiers. people.json holds an identifier
   in lower case, one with a capital, and no blank identifier. Both loads
   succeed (a failed load is SpecIndex's subject). *)

MaxAliases == 2

AliasRawKeys == {"Moses", "moses ", "aaron", " "}
AliasLists == { <<>>, <<"moses", "mo2">>, <<"mo2">> }
AliasQueries == {"  Moses ", "moses", "MOSES", "Aaron", "aaron", " Aaron", "", " ", "zz"}

AliasPeopleJson ==
    << Entry("moses", "Moses", "Exodus", Some(50)),
       Entry("Aaron", "Aaron", "Exodus", Some(10)),
       Entry("mo2", "Moses II", "", None) >>

(* The objects JSON.parse can return: entries in file order, keys distinct *)
AliasFiles ==
    UNION { { f \in [1..n -> AliasRawKeys \X AliasLists] :
                \A i, j \in 1..n : f[i][1] = f[j][1] => i = j }
            : n \in 0..MaxAliases }

InitAlias ==
    /\ IdleTree
    /\ IdleView
    /\ \E f \in AliasFiles :
          store = [root |-> RootBare, people |-> AliasPeopleJson,
                   children |-> ChildrenJson, aliases |-> f]
    /\ rootCache = None
    /\ peopleIndexCache = None
    /\ childrenCache = None
    /\ parentsCache = None
    /\ aliasesCache = None
    /\ ixFailed = {}
    /\ ixCall = NoCall

(* searchPerson(query), with the loads it awaits: loadAliasesData always
   (unless the query normalizes to ""), loadPeopleIndex only when the alias
   lookup gave nothing. *)
AliasSearch(query) ==
    LET normalized == normalizeKey(query)
        aliases == IF IsSome(aliasesCache) THEN Get(aliasesCache)
                   ELSE LoadResult("aliases", TRUE)
        aliasMatches == MapGet(aliases, normalized)
        hit == IsSome(aliasMatches) /\ Len(Get(aliasMatches)) > 0
        peopleIndex == IF IsSome(peopleIndexCache) THEN Get(peopleIndexCache)
                       ELSE LoadResult("people", TRUE)
    IN /\ aliasesCache' = IF normalized = "" THEN aliasesCache ELSE Some(aliases)
       /\ peopleIndexCache' = IF normalized = "" \/ hit THEN peopleIndexCache
                              ELSE Some(peopleIndex)
       /\ ixCall' = Call("searchPerson", query, searchPerson(query, aliases, peopleIndex))
       /\ UNCHANGED <<fnVars, store, rootCache, childrenCache, parentsCache, ixFailed, appVars>>

NextAlias == \E query \in AliasQueries : AliasSearch(query)

SpecAlias == InitAlias /\ [][NextAlias]_vars

(* the first element of a list, undefined (absent) for an empty list *)
First(list) == IF Len(list) > 0 THEN Some(list[1]) ELSE None

(* C12 as stated: for every key k of aliases.json and every query whose
   trimmed, lower-cased form equals that of k, searchPerson returns the first
   identifier of k's list. *)
C12_AliasLookupAnyKey ==
    ixCall.fn = "searchPerson" =>
        \A i \in 1..Len(store.aliases) :
            normalizeKey(ixCall.arg) = normalizeKey(store.aliases[i][1])
            => ixCall.out = First(store.aliases[i][2])

(* C12 amended: for every key k of aliases.json whose trimmed, lower-cased
   form is not empty, whose list is not empty, and which no later key of the
   file equals after trimming and lower-casing, and every query whose trimmed,
   lower-cased form equals that of k, searchPerson returns the first
   identifier of k's list. *)
C12_AliasLookupNormalized ==
    ixCall.fn = "searchPerson" =>
        \A i \in 1..Len(store.aliases) :
            (/\ normalizeKey(ixCall.arg) = normalizeKey(store.aliases[i][1])
             /\ normalizeKey(store.aliases[i][1]) # ""
             /\ store.aliases[i][2] # <<>>
             /\ \A j \in (i + 1)..Len(store.aliases) :
                   normalizeKey(store.aliases[j][1]) # normalizeKey(store.aliases[i][1]))
            => ixCall.out = First(store.aliases[i][2])

(* C12 witness: "MOSES" resolved through the key "Moses", to an identifier
   that is not the query *)
C12_Witness ==
    /\ ixCall.fn = "searchPerson"
    /\ ixCall.arg = "MOSES"
    /\ \E i \in 1..Len(store.aliases) : store.aliases[i] = <<"Moses", <<"mo2">>>>
    /\ ixCall.out = Some("mo2")

HasAliasEntry(query) ==
    \E i \in 1..Len(store.aliases) : normalizeKey(store.aliases[i][1]) = normalizeKey(query)

IsPeopleKey(id) == \E i \in 1..Len(store.people) : store.people[i].id = id

(* C13: for a query that no key of aliases.json matches after trimming and
   lower-casing, searchPerson returns the query itself exactly when the query
   as typed is a key of the people index, and null otherwise: a query that
   differs from an identifier by case or surrounding white space only is not
   matched. *)
C13_FallbackRawIdentifier ==
    (ixCall.fn = "searchPerson" /\ ~HasAliasEntry(ixCall.arg)) =>
        ixCall.out = IF IsPeopleKey(ixCall.arg) THEN Some(ixCall.arg) ELSE None

(* C13 witness: "Aaron" is returned as typed with no alias entry for it, while
   the people index has no key "aaron". *)
C13_Witness ==
    /\ ixCall.fn = "searchPerson"
    /\ ixCall.arg = "Aaron"
    /\ ~HasAliasEntry("Aaron")
    /\ ixCall.out = Some("Aaron")
    /\ ~IsPeopleKey("aaron")

----------------------------------------------------------------------------
(* SpecGraph: findAncestorPath and buildBookFilteredTree over bounded
   children indexes.

   children.json maps each of the identifiers of GraphIds, in this order, to
   any list of at most MaxKids different identifiers (a list that names the
   person itself names nobody else): the graphs include cycles, self-loops, persons with two parents and persons cut off from the
   root. people.json is fixed: p2 has the highest verse count, p1 and c the
   same one, r has none; the firstMention of c has that of p1 and p2 as a
   proper prefix. Init is the module state after loadPeopleIndex,
   loadChildrenIndex and loadParentsIndex have run, each load having
   succeeded. *)

MaxKids == 2

GraphIds == <<"r", "p1", "p2", "c">>
GraphIdSet == { GraphIds[i] : i \in 1..Len(GraphIds) }

GraphPeopleJson ==
    << Entry("r", "R", "Genesis", None),
       Entry("p1", "P1", "Exodus", Some(10)),
       Entry("p2", "P2", "Exodus", Some(50)),
       Entry("c", "C", "Exodus II", Some(10)) >>

GraphRoots == {"r", "p1"}
GraphBooks == {"", "Exo", "Exodus", "Genesis"}

ChildLists(id) ==
    UNION { { l \in [1..n -> GraphIdSet] :
                /\ \A i, j \in 1..n : l[i] = l[j] => i = j
                /\ (\E i \in 1..n : l[i] = id) => n = 1 }
            : n \in 0..MaxKids }

InitGraph ==
    /\ IdleTree
    /\ IdleView
    /\ \E k1 \in ChildLists("r"), k2 \in ChildLists("p1"),
          k3 \in ChildLists("p2"), k4 \in ChildLists("c") :
          store = [root |-> Node("r", "R"), people |-> GraphPeopleJson,
                   children |-> << <<"r", Some(k1)>>, <<"p1", Some(k2)>>,
                                   <<"p2", Some(k3)>>, <<"c", Some(k4)>> >>,
                   aliases |-> <<>>]
    /\ rootCache = None
    /\ peopleIndexCache = Some(LoadResult("people", TRUE))
    /\ childrenCache = Some(LoadResult("children", TRUE))
    /\ parentsCache = Some(ParentsMap(Get(childrenCache), EmptyMap))
    /\ aliasesCache = None
    /\ ixFailed = {}
    /\ ixCall = NoCall

GraphFindAncestorPath(targetId, rootId) ==
    /\ ixCall' = Call("findAncestorPath", <<targetId, rootId>>,
                      findAncestorPath(targetId, rootId, Get(parentsCache),
                                       Get(peopleIndexCache)))
    /\ UNCHANGED <<fnVars, store, cacheVars, aliasesCache, ixFailed, appVars>>

GraphBuildBookFilteredTree(book) ==
    /\ ixCall' = Call("buildBookFilteredTree", book,
                      buildBookFilteredTree(book, Get(peopleIndexCache), Get(childrenCache)))
    /\ UNCHANGED <<fnVars, store, cacheVars, aliasesCache, ixFailed, appVars>>

NextGraph ==
    \/ \E targetId \in GraphIdSet, rootId \in GraphRoots :
          GraphFindAncestorPath(targetId, rootId)
    \/ \E book \in GraphBooks : GraphBuildBookFilteredTree(book)

SpecGraph == InitGraph /\ [][NextGraph]_vars

----------------------------------------------------------------------------
(* Ancestor Path Resolver: claims *)

ListSet(list) == { list[i] : i \in 1..Len(list) }

(* The identifiers reached from seen by following ParentsIndex edges without
   entering an identifier of avoid. *)
RECURSIVE Ancestors(_, _, _)
Ancestors(parentsIndex, seen, avoid) ==
    LET next == seen \cup (UNION { ListSet(OrEmpty(MapGet(parentsIndex, s))) : s \in seen }
                           \ avoid)
    IN IF next = seen THEN seen ELSE Ancestors(parentsIndex, next, avoid)

Reaches(parentsIndex, from, rootId, avoid) ==
    from \notin avoid /\ rootId \in Ancestors(parentsIndex, {from}, avoid)

AncestorPathContract(targetId, rootId, parentsIndex, childrenIndex, out) ==
    /\ ~IsSome(out) <=> ~Reaches(parentsIndex, targetId, rootId, {})
    /\ IsSome(out) =>
         LET path == Get(out)
         IN /\ Len(path) > 0
            /\ path[1] = rootId
            /\ path[Len(path)] = targetId
            /\ NoDuplicates(path)
            /\ \A k \in 1..(Len(path) - 1) : Listed(childrenIndex, path[k], path[k + 1])

(* C14: whenever handleSearch is about to receive the result of
   findAncestorPath(targetId, rootId), that result is null if and only if
   rootId is not reachable from targetId over ParentsIndex edges, and a path
   returned starts with rootId, ends with targetId, holds no identifier twice
   and has b in ChildrenIndex[a] for every consecutive pair (a, b), where
   ChildrenIndex is the cached children index. *)
C14_AncestorPathContract ==
    \A i \in 1..Len(ops) :
        (ops[i].kind = "handleSearch" /\ ops[i].wait = {}) =>
            AncestorPathContract(ops[i].arg, Get(ops[i].data).id, Get(ops[i].parents),
                                 CachedIndexes.children,
                                 findAncestorPath(ops[i].arg, Get(ops[i].data).id,
                                                  Get(ops[i].parents),
                                                  Get(ops[i].got["people"])))

(* The same contract for a call made on indexes that are the inverse of each
   other. *)
AncestorPathOnInverseIndexes ==
    ixCall.fn = "findAncestorPath" =>
        AncestorPathContract(ixCall.arg[1], ixCall.arg[2], Get(parentsCache),
                             Get(childrenCache), ixCall.out)

(* The verse count the resolver compares parents by, read off the people index
   (a person without an entry or without a count counts as 0). *)
VerseCountOf(peopleIndex, id) ==
    IF MapHas(peopleIndex, id) /\ IsSome(Get(MapGet(peopleIndex, id)).verseCount)
    THEN Get(Get(MapGet(peopleIndex, id)).verseCount)
    ELSE 0

PositionIn(list, x) == CHOOSE i \in 1..Len(list) : list[i] = x

(* p comes before q among the recorded parents of a person: higher verse
   count, or the same count and earlier in ParentsIndex order. *)
TriedBefore(peopleIndex, parents, p, q) ==
    \/ VerseCountOf(peopleIndex, p) > VerseCountOf(peopleIndex, q)
    \/ /\ VerseCountOf(peopleIndex, p) = VerseCountOf(peopleIndex, q)
       /\ PositionIn(parents, p) < PositionIn(parents, q)

(* C15: the path findAncestorPath returns goes, at every person on it, through
   the first of that person's recorded parents, in descending order of verse
   count (missing count = 0, equal counts in ParentsIndex order), that leads to
   the root without passing through the persons below it on the path: a parent
   tried earlier is on the path unless it does not lead to the root. The path
   is thereby a function of the two indexes. *)
C15_ParentsByVerseCount ==
    (ixCall.fn = "findAncestorPath" /\ IsSome(ixCall.out)) =>
        LET path == Get(ixCall.out)
            rootId == ixCall.arg[2]
            parentsIndex == Get(parentsCache)
            peopleIndex == Get(peopleIndexCache)
        IN \A k \in 2..Len(path) :
              LET parents == OrEmpty(MapGet(parentsIndex, path[k]))
                  below == { path[j] : j \in k..Len(path) }
              IN \A p \in ListSet(parents) :
                    TriedBefore(peopleIndex, parents, p, path[k - 1])
                        => ~Reaches(parentsIndex, p, rootId, below)

(* C15 witness: c has the recorded parents p1 (verse count 10) and p2 (verse
   count 50), in this order in the parents index; both lead to the root without
   c, and the path returned for c goes through p2. *)
C15_Witness ==
    /\ ixCall.fn = "findAncestorPath"
    /\ ixCall.arg = <<"c", "r">>
    /\ OrEmpty(MapGet(Get(parentsCache), "c")) = <<"p1", "p2">>
    /\ Reaches(Get(parentsCache), "p1", "r", {"c"})
    /\ Reaches(Get(parentsCache), "p2", "r", {"c"})
    /\ IsSome(ixCall.out)
    /\ Len(Get(ixCall.out)) >= 2
    /\ Get(ixCall.out)[Len(Get(ixCall.out)) - 1] = "p2"

----------------------------------------------------------------------------
(* Category Subtree Builder: claims *)

(* C16: on every children index, cyclic ones included, buildBookFilteredTree
   and findAncestorPath return: the tree built holds no identifier twice on
   the chain from the synthetic root through a seed down to any node (so it
   is no deeper than there are persons), and the path found holds no
   identifier twice. *)
C16_CyclesCutOff ==
    /\ (ixCall.fn = "buildBookFilteredTree" /\ IsSome(ixCall.out)) =>
           \A loc \in AllLocs(Get(ixCall.out)) :
               /\ NoDuplicates(IdsAlong(Get(ixCall.out), loc))
               /\ Len(loc) <= Len(GraphIds)
    /\ (ixCall.fn = "findAncestorPath" /\ IsSome(ixCall.out)) =>
           /\ NoDuplicates(Get(ixCall.out))
           /\ Len(Get(ixCall.out)) <= Len(GraphIds)

(* C16 witness: children.json holds the cycle p1 -> [p2], p2 -> [p1]; the tree
   built for the category of both has the seed p1 with the one child p2, and
   p2 has no child there. *)
C16_Witness ==
    /\ OrEmpty(MapGet(Get(childrenCache), "p1")) = <<"p2">>
    /\ OrEmpty(MapGet(Get(childrenCache), "p2")) = <<"p1">>
    /\ ixCall.fn = "buildBookFilteredTree"
    /\ ixCall.arg = "Exodus"
    /\ IsSome(ixCall.out)
    /\ LET seeds == OrEmpty(Get(ixCall.out).children)
       IN /\ Len(seeds) = 2
          /\ seeds[1].id = "p1"
          /\ Len(OrEmpty(seeds[1].hidden)) = 1
          /\ OrEmpty(seeds[1].hidden)[1].id = "p2"
          /\ ~Populated(OrEmpty(seeds[1].hidden)[1].hidden)
          /\ ~Populated(OrEmpty(seeds[1].hidden)[1].children)

(* The persons of the people index whose firstMention is the category. *)
FirstMentioned(peopleIndex, book) ==
    { peopleIndex[i][2].id : i \in { j \in 1..Len(peopleIndex) :
                                        peopleIndex[j][2].firstMention = book } }

DirectChildren(node) == OrEmpty(node.children) \o OrEmpty(node.hidden)

(* C17: buildBookFilteredTree(category) returns null exactly when the category
   is empty or no person has a firstMention equal to it; otherwise the direct
   children of the synthetic root are the persons whose firstMention is the
   category, each of them once, and every other node is a child, by the
   children index, of the node above it. *)
C17_SeedsByExactFirstMention ==
    ixCall.fn = "buildBookFilteredTree" =>
        LET book == ixCall.arg
            expected == FirstMentioned(Get(peopleIndexCache), book)
        IN /\ ~IsSome(ixCall.out) <=> (book = "" \/ expected = {})
           /\ IsSome(ixCall.out) =>
                LET tree == Get(ixCall.out)
                    seeds == DirectChildren(tree)
                IN /\ { seeds[i].id : i \in 1..Len(seeds) } = expected
                   /\ \A i, j \in 1..Len(seeds) : seeds[i].id = seeds[j].id => i = j
                   /\ \A loc \in AllLocs(tree) :
                         \A k \in 2..Len(loc) :
                             Listed(Get(childrenCache), IdsAlong(tree, loc)[k],
                                    IdsAlong(tree, loc)[k + 1])

(* C17 witness: the category Exodus, which the firstMention "Exodus II" of c
   starts with: the seeds are p1 and p2, and c is in the tree only below a
   seed. *)
C17_Witness ==
    /\ ixCall.fn = "buildBookFilteredTree"
    /\ ixCall.arg = "Exodus"
    /\ IsSome(ixCall.out)
    /\ LET seeds == DirectChildren(Get(ixCall.out))
       IN /\ Len(seeds) = 2
          /\ seeds[1].id = "p1" /\ seeds[2].id = "p2"
    /\ \E loc \in AllLocs(Get(ixCall.out)) :
          Len(loc) = 2 /\ NodeAt(Get(ixCall.out), loc).id = "c"

SyntheticRoot(tree, book) ==
    /\ tree.id = "book-" \o book
    /\ tree.isFilterRoot
    /\ tree.hasLoadedChildren

(* C18 as stated: every seed subtree is a hidden (_children) child of the
   synthetic root, whose id is derived from the category, whose filter-root
   flag is set and whose hasLoadedChildren is true. *)
C18_SeedsHiddenUnderRoot ==
    (ixCall.fn = "buildBookFilteredTree" /\ IsSome(ixCall.out)) =>
        LET tree == Get(ixCall.out)
        IN /\ SyntheticRoot(tree, ixCall.arg)
           /\ Populated(tree.hidden)
           /\ ~Populated(tree.children)

(* C18 amended: every seed subtree is a visible (children) child of the
   synthetic root, which has no hidden list; below the root every node keeps
   its descendants in its hidden list only and is not marked loaded; the root's
   id is "book-" followed by the category, its filter-root flag is set and its
   hasLoadedChildren is true. *)
C18_SeedsVisibleUnderRoot ==
    (ixCall.fn = "buildBookFilteredTree" /\ IsSome(ixCall.out)) =>
        LET tree == Get(ixCall.out)
        IN /\ SyntheticRoot(tree, ixCall.arg)
           /\ Populated(tree.children)
           /\ ~IsSome(tree.hidden)
           /\ \A loc \in AllLocs(tree) \ {<<>>} :
                 /\ loc[1][1] = "children"
                 /\ \A k \in 2..Len(loc) : loc[k][1] = "_children"
                 /\ ~IsSome(NodeAt(tree, loc).children)
                 /\ IsSome(NodeAt(tree, loc).hidden) => Populated(NodeAt(tree, loc).hidden)
                 /\ ~NodeAt(tree, loc).hasLoadedChildren
                 /\ ~NodeAt(tree, loc).isFilterRoot

(* C18 witness: a tree built for Genesis whose one seed r has descendants. *)
C18_Witness ==
    /\ ixCall.fn = "buildBookFilteredTree"
    /\ ixCall.arg = "Genesis"
    /\ IsSome(ixCall.out)
    /\ Get(ixCall.out).id = "book-Genesis"
    /\ Len(OrEmpty(Get(ixCall.out).children)) = 1
    /\ Get(Get(ixCall.out).children)[1].id = "r"
    /\ Populated(Get(Get(ixCall.out).children)[1].hidden)

----------------------------------------------------------------------------
(* SpecExpand: expandInitialGenerations applied to bounded trees.

   The input is any tree of at most MaxNodes nodes that root.json or an
   earlier operation can supply: the root is adam; a node is as buildNode
   leaves it, or marked loaded without a children list, or marked loaded with
   the empty list a fetch attached, or flagged suppressChildren; its children
   are all visible or all hidden. The indexes are the loaded ones of
   Dataset(RootBare): a has the child q, s has none. The depth is any of
   0..AUTO_EXPAND_DEPTH. *)

ExpandIds == { <<"a", "A">>, <<"s", "S">> }

NodeKinds(id, name) ==
    { Node(id, name),
      [Node(id, name) EXCEPT !.hasLoadedChildren = TRUE],
      [Node(id, name) EXCEPT !.hasLoadedChildren = TRUE, !.children = Some(<<>>)],
      [Node(id, name) EXCEPT !.suppressChildren = TRUE] }

ExpandLeaves == UNION { NodeKinds(k[1], k[2]) : k \in ExpandIds }

InitExpand ==
    /\ IdleView
    /\ IdleIndex
    /\ store = Dataset(RootBare)
    /\ rootCache = None
    /\ peopleIndexCache = Some(LoadResult("people", TRUE))
    /\ childrenCache = Some(LoadResult("children", TRUE))
    /\ parentsCache = None
    /\ fnTree \in NodeKinds("adam", "Adam")
    /\ fnQuery = ""
    /\ fnFound = None
    /\ fnPath = None
    /\ fnDone = FALSE

ExpandGrow ==
    /\ ixCall.fn = ""
    /\ NodeCount(fnTree) < MaxNodes
    /\ \E loc \in AllLocs(fnTree), field \in {"children", "_children"}, leaf \in ExpandLeaves :
          /\ field = "children" => ~IsSome(NodeAt(fnTree, loc).hidden)
          /\ field = "_children" => ~IsSome(NodeAt(fnTree, loc).children)
          /\ fnTree' = AttachLeaf(fnTree, loc, field, leaf)
    /\ UNCHANGED <<fnQuery, fnFound, fnPath, fnDone, store, cacheVars, ixVars, appVars>>

ExpandCall(depth) ==
    /\ ixCall.fn = ""
    /\ LET e == expandInitialGenerations(Obj("fresh", fnTree), depth, ExpandCtx)
       IN ixCall' = Call("expandInitialGenerations", depth,
                         Some([val |-> e.val, log |-> e.log]))
    /\ UNCHANGED <<fnVars, store, cacheVars, aliasesCache, ixFailed, appVars>>

NextExpand == ExpandGrow \/ \E depth \in 0..AUTO_EXPAND_DEPTH : ExpandCall(depth)

SpecExpand == InitExpand /\ [][NextExpand]_vars

----------------------------------------------------------------------------
(* Lazy Expansion Engine: claims *)

IdsOf(list) == [i \in 1..Len(list) |-> list[i].id]

Parent(loc) == SubSeq(loc, 1, Len(loc) - 1)

(* The nodes of the expanded tree that the expansion to the given depth went
   through: at distance less than depth from the root, reached over visible
   children only, and neither flagged suppressChildren nor below a node so
   flagged. *)
ExpandedThrough(tree, depth) ==
    { l \in AllLocs(tree) :
        /\ Len(l) < depth
        /\ \A k \in 1..Len(l) : l[k][1] = "children"
        /\ \A k \in 0..Len(l) : ~NodeAt(tree, SubSeq(l, 1, k)).suppressChildren }

(* The node at loc of the expanded tree as it was before the expansion: the
   node of the input tree it was, or the node fetchChildren built for it. *)
BeforeExpansion(before, after, loc) ==
    IF IsSome(OriginOf(before, loc)) THEN Get(OriginOf(before, loc))
    ELSE fetchChildren(NodeAt(after, Parent(loc)).id, CachedIndexes.people,
                       CachedIndexes.children)[loc[Len(loc)][2]]

ExpansionContract(before, depth, after, log) ==
    LET through == ExpandedThrough(after, depth)
    IN /\ \A k \in 1..Len(log) : log[k].loc \in through
       /\ \A l \in AllLocs(after) :
            LET res == NodeAt(after, l)
                pre == BeforeExpansion(before, after, l)
                promoted == IsSome(pre.hidden) /\ ~IsSome(pre.children)
                fetched == /\ ~Populated(pre.children) /\ ~Populated(pre.hidden)
                           /\ ~pre.hasLoadedChildren
                asked == { k \in 1..Len(log) : log[k].loc = l }
            IN IF l \in through
               THEN /\ Cardinality(asked) = (IF fetched THEN 1 ELSE 0)
                    /\ \A k \in asked : log[k].id = pre.id
                    /\ res.hasLoadedChildren = (pre.hasLoadedChildren \/ fetched)
                    /\ IsSome(res.children) = (promoted \/ fetched \/ IsSome(pre.children))
                    /\ IdsOf(OrEmpty(res.children)) =
                         (IF promoted THEN IdsOf(Get(pre.hidden))
                          ELSE IF fetched
                               THEN IdsOf(fetchChildren(pre.id, CachedIndexes.people,
                                                        CachedIndexes.children))
                          ELSE IdsOf(OrEmpty(pre.children)))
                    /\ res.hidden = (IF promoted THEN None ELSE pre.hidden)
                    /\ [res EXCEPT !.children = None, !.hidden = None,
                                   !.hasLoadedChildren = FALSE]
                       = [pre EXCEPT !.children = None, !.hidden = None,
                                     !.hasLoadedChildren = FALSE]
               ELSE (l = <<>> \/ Parent(l) \in through) => res = pre

(* C19: expandInitialGenerations(root, d) goes only through nodes at distance
   less than d from the root that are not flagged suppressChildren and not
   below a flagged node. At each of them: hidden children become the visible
   ones when there were no visible ones; children are fetched and attached and
   hasLoadedChildren is set exactly when the node had no populated children and
   was not loaded; the visible children are then gone through with depth - 1.
   Every other node - at distance d or more, flagged, or below a flagged node -
   is as it was (or as fetchChildren built it) and is not fetched for. *)
C19_ExpansionContract ==
    ixCall.fn = "expandInitialGenerations" =>
        ExpansionContract(fnTree, ixCall.arg, Get(ixCall.out).val, Get(ixCall.out).log)

(* C19 witness: an expansion to depth 2 of a tree whose root had hidden
   children only, one of them flagged suppressChildren with a child of its own
   and one that was fetched for: the fetched grandchild is at distance 2 and is
   neither loaded nor given children. *)
C19_Witness ==
    /\ ixCall.fn = "expandInitialGenerations"
    /\ ixCall.arg = 2
    /\ Populated(fnTree.hidden) /\ ~IsSome(fnTree.children)
    /\ \E i \in 1..Len(Get(fnTree.hidden)) :
          /\ Get(fnTree.hidden)[i].suppressChildren
          /\ Populated(Get(fnTree.hidden)[i].children)
    /\ LET after == Get(ixCall.out).val
       IN /\ ~IsSome(after.hidden)
          /\ \E k \in 1..Len(Get(ixCall.out).log) :
                LET l == Get(ixCall.out).log[k].loc
                IN /\ Len(l) = 1
                   /\ Populated(NodeAt(after, l).children)
                   /\ ~Get(NodeAt(after, l).children)[1].hasLoadedChildren
                   /\ ~IsSome(Get(NodeAt(after, l).children)[1].children)

IsPrefix(l1, l2) == Len(l1) <= Len(l2) /\ SubSeq(l2, 1, Len(l1)) = l1

(* C20: the fetches of one expansion come one after the other in depth-first
   pre-order of the nodes that ask: a node asks before the nodes below it, and
   every fetch asked from within the subtree of a child comes before every
   fetch asked from within the subtree of a later child of the same node; no
   node asks twice. *)
C20_FetchesInPreOrder ==
    ixCall.fn = "expandInitialGenerations" =>
        LET log == Get(ixCall.out).log
            after == Get(ixCall.out).val
        IN /\ \A k, m \in 1..Len(log) : k < m => LocBefore(log[k].loc, log[m].loc)
           /\ \A l \in AllLocs(after) : \A i, j \in 1..Len(OrEmpty(NodeAt(after, l).children)) :
                 i < j =>
                   \A k, m \in 1..Len(log) :
                       (/\ IsPrefix(Append(l, <<"children", i>>), log[k].loc)
                        /\ IsPrefix(Append(l, <<"children", j>>), log[m].loc)) => k < m

(* C20 witness: the first child of the root and a node below that child were
   fetched for, and then the second child of the root. *)
C20_Witness ==
    /\ ixCall.fn = "expandInitialGenerations"
    /\ \E k \in 1..Len(Get(ixCall.out).log) :
          /\ k + 2 <= Len(Get(ixCall.out).log)
          /\ Get(ixCall.out).log[k].loc = << <<"children", 1>> >>
          /\ Get(ixCall.out).log[k + 1].loc = << <<"children", 1>>, <<"children", 1>> >>
          /\ Get(ixCall.out).log[k + 2].loc = << <<"children", 2>> >>

----------------------------------------------------------------------------
(* Claims C21..C30 *)

Occurrences(tree, id) == Cardinality({ l \in AllLocs(tree) : NodeAt(tree, l).id = id })

(* The number of chains of the children index that lead from one person to
   another without passing through a person twice or through one of avoid. *)
RECURSIVE SimpleChains(_, _, _, _)
RECURSIVE SimpleChainsFrom(_, _, _, _)

SimpleChainsFrom(childrenIndex, childIds, to, avoid) ==
    IF childIds = <<>> THEN 0
    ELSE SimpleChains(childrenIndex, Head(childIds), to, avoid)
         + SimpleChainsFrom(childrenIndex, Tail(childIds), to, avoid)

SimpleChains(childrenIndex, from, to, avoid) ==
    IF from \in avoid THEN 0
    ELSE IF from = to THEN 1
    ELSE SimpleChainsFrom(childrenIndex, OrEmpty(MapGet(childrenIndex, from)), to,
                          avoid \cup {from})

(* C21 as stated: within the subtree of one seed of the tree
   buildBookFilteredTree returns, every identifier is materialized at most
   once, also when two chains lead to it from the seed. *)
C21_OncePerSeedSubtree ==
    (ixCall.fn = "buildBookFilteredTree" /\ IsSome(ixCall.out)) =>
        \A i \in 1..Len(OrEmpty(Get(ixCall.out).children)) :
            \A id \in GraphIdSet : Occurrences(Get(Get(ixCall.out).children)[i], id) <= 1

(* C21 amended: within the subtree of one seed an identifier is materialized
   once for every chain of the children index that leads to it from the seed
   without passing through a person twice (so several times when several such
   chains exist, and never twice on one chain); the subtree of every seed is
   built this way whatever the subtrees of the other seeds hold. *)
C21_OncePerChain ==
    (ixCall.fn = "buildBookFilteredTree" /\ IsSome(ixCall.out)) =>
        \A i \in 1..Len(OrEmpty(Get(ixCall.out).children)) :
            LET seed == Get(Get(ixCall.out).children)[i]
            IN \A id \in GraphIdSet :
                  Occurrences(seed, id) = SimpleChains(Get(childrenCache), seed.id, id, {})

(* C21 witness: below the seed r both p1 and p2 have the child c, which is
   materialized twice in the subtree of r. *)
C21_Witness ==
    /\ ixCall.fn = "buildBookFilteredTree"
    /\ ixCall.arg = "Genesis"
    /\ IsSome(ixCall.out)
    /\ OrEmpty(MapGet(Get(childrenCache), "r")) = <<"p1", "p2">>
    /\ OrEmpty(MapGet(Get(childrenCache), "p1")) = <<"c">>
    /\ OrEmpty(MapGet(Get(childrenCache), "p2")) = <<"c">>
    /\ Occurrences(Get(Get(ixCall.out).children)[1], "c") = 2

----------------------------------------------------------------------------
(* SpecFetch: fetchChildren over bounded indexes.

   people.json holds any of the persons of GraphPeopleJson, in their order;
   children.json gives r any list of at most MaxFetchKids identifiers, among
   them one that no people.json holds, the same identifier possibly twice;
   p1 has the one child c. Init is the module state after loadPeopleIndex and
   loadChildrenIndex have run, each load having succeeded. *)

MaxFetchKids == 3

FetchChildIds == {"p1", "p2", "c", "zz"}
FetchParents == {"r", "p1", "c"}

FetchChildLists == UNION { [1..n -> FetchChildIds] : n \in 0..MaxFetchKids }

InitFetch ==
    /\ IdleTree
    /\ IdleView
    /\ \E keep \in SUBSET (1..Len(GraphPeopleJson)), kids \in FetchChildLists :
          store = [root |-> Node("r", "R"),
                   people |-> SelectSeq(GraphPeopleJson,
                                        LAMBDA e : \E i \in keep : GraphPeopleJson[i] = e),
                   children |-> << <<"r", Some(kids)>>, <<"p1", Some(<<"c">>)>> >>,
                   aliases |-> <<>>]
    /\ rootCache = None
    /\ peopleIndexCache = Some(LoadResult("people", TRUE))
    /\ childrenCache = Some(LoadResult("children", TRUE))
    /\ parentsCache = None
    /\ aliasesCache = None
    /\ ixFailed = {}
    /\ ixCall = NoCall

FetchChildren(parentId) ==
    /\ ixCall' = Call("fetchChildren", parentId,
                      Some(fetchChildren(parentId, Get(peopleIndexCache), Get(childrenCache))))
    /\ UNCHANGED <<fnVars, store, cacheVars, aliasesCache, ixFailed, appVars>>

NextFetch == \E parentId \in FetchParents : FetchChildren(parentId)

SpecFetch == InitFetch /\ [][NextFetch]_vars

(* The identifiers of list that have an entry in the people index, in the
   order of list. *)
RECURSIVE KnownOf(_, _)
KnownOf(list, peopleIndex) ==
    IF list = <<>> THEN <<>>
    ELSE (IF Head(list) \in MapKeys(peopleIndex) THEN <<Head(list)>> ELSE <<>>)
         \o KnownOf(Tail(list), peopleIndex)

(* C22: fetchChildren(id) returns, in ChildrenIndex order, one node for every
   identifier of ChildrenIndex[id] that the people index holds and none for
   the others ([] when id has no entry in the children index); every node
   returned carries the identifier and name of its person, has neither
   visible nor hidden children and has hasLoadedChildren = false. *)
C22_FetchChildrenMaterializes ==
    ixCall.fn = "fetchChildren" =>
        LET out == Get(ixCall.out)
            listed == IF ixCall.arg \in MapKeys(Get(childrenCache))
                      THEN Get(MapGet(Get(childrenCache), ixCall.arg)) ELSE <<>>
            known == KnownOf(listed, Get(peopleIndexCache))
        IN /\ Len(out) = Len(known)
           /\ \A i \in 1..Len(out) :
                 /\ out[i].id = known[i]
                 /\ \E k \in 1..Len(store.people) :
                       /\ store.people[k].id = out[i].id
                       /\ store.people[k].name = out[i].name
                 /\ ~IsSome(out[i].children)
                 /\ ~IsSome(out[i].hidden)
                 /\ ~out[i].hasLoadedChildren

(* C22 witness: ChildrenIndex[r] names a person missing from the people index
   between two that it holds; the two are returned, in that order. *)
C22_Witness ==
    /\ ixCall.fn = "fetchChildren"
    /\ ixCall.arg = "r"
    /\ OrEmpty(MapGet(Get(childrenCache), "r")) = <<"p2", "zz", "p1">>
    /\ Len(Get(ixCall.out)) = 2
    /\ Get(ixCall.out)[1].id = "p2"
    /\ Get(ixCall.out)[2].id = "p1"

(* The tree holds a node matching id that is reached from the root over
   visible children only. *)
DrawnIn(tree, id) ==
    \E loc \in VisibleLocs(tree) : NodeAt(tree, loc).id = id \/ NodeAt(tree, loc).name = id

(* C23: a step in which handleSearch(id) completes without the not-found
   notice publishes a tree that holds the target, reached from the root over
   visible children only. *)
C23_SearchRevealsTarget ==
    [][ /\ \A id \in SearchIds :
             (Search(id) /\ ops' = ops /\ alerts' = alerts)
                 => (IsSome(data') /\ DrawnIn(Get(data'), id))
        /\ \A i \in 1..Len(ops) :
             (SearchAncestors(i) /\ alerts' = alerts)
                 => (IsSome(data') /\ DrawnIn(Get(data'), ops[i].arg)) ]_vars

----------------------------------------------------------------------------
(* SpecFlags: the App over a root.json that carries view flags.

   root.json holds adam with the children a and b: a is flagged
   suppressChildren and shows its child q; b is flagged isFilterRoot and keeps
   its child q collapsed. The indexes are those of Dataset. Init and the
   actions are those of Spec. *)

RootFlagged ==
    WithChildren(Node("adam", "Adam"),
        << [WithChildren(Node("a", "A"), << Node("q", "Q") >>)
              EXCEPT !.suppressChildren = TRUE],
           [Node("b", "B") EXCEPT !.isFilterRoot = TRUE,
                                  !.hidden = Some(<< Node("q", "Q") >>)] >>)

InitFlags ==
    /\ IdleTree
    /\ IdleIndex
    /\ store = Dataset(RootFlagged)
    /\ rootCache = None
    /\ peopleIndexCache = None
    /\ childrenCache = None
    /\ parentsCache = None
    /\ data = None
    /\ selectedPerson = None
    /\ selectedBook = None
    /\ highlightId = None
    /\ hasAutoExpanded = FALSE
    /\ ops = << [NewOp("resetView", "root", "", None) EXCEPT !.wait = {"root"}] >>
    /\ alerts = <<>>
    /\ prev = None
    /\ firstView = None
    /\ pubs = 0
    /\ done = [kind |-> "", swaps |-> 0]
    /\ events = 0

SpecFlags == InitFlags /\ [][Next]_vars

SelectOnly(node) ==
    /\ selectedPerson' = Some(node)
    /\ highlightId' = Some(node.id)
    /\ UNCHANGED <<data, prev, pubs, ops, alerts, selectedBook, hasAutoExpanded,
                   store, cacheVars, ixVars, fnVars>>

(* C24: a click on the root of the current tree, on a node flagged as filter
   root or on a node flagged suppressChildren sets selection and highlight to
   the clicked node and changes nothing else: the tree is the same, nothing is
   published and no operation (so no children fetch) is started. *)
C24_FlaggedClickSelectsOnly ==
    [][ \A loc \in (IF IsSome(data) THEN VisibleLocs(Get(data)) ELSE {}) :
           (/\ NodeClick(loc)
            /\ \/ loc = <<>>
               \/ NodeAt(Get(data), loc).isFilterRoot
               \/ NodeAt(Get(data), loc).suppressChildren)
               => SelectOnly(NodeAt(Get(data), loc)) ]_vars

(* C24 witness: the last click was on a node flagged suppressChildren that
   shows children; it is selected and nothing was published for the click. *)
C24_Witness ==
    /\ done = [kind |-> "handleNodeClick", swaps |-> 0]
    /\ IsSome(selectedPerson)
    /\ Get(selectedPerson).suppressChildren
    /\ Populated(Get(selectedPerson).children)
    /\ highlightId = Some(Get(selectedPerson).id)
    /\ IsSome(data)
    /\ \E loc \in VisibleLocs(Get(data)) : NodeAt(Get(data), loc) = Get(selectedPerson)

(* C25: when handleNodeClick resumes after fetchChildren and attaches the
   children, the tree it publishes is the tree published last - which holds
   the change of any toggle, search reveal or other click completed in the
   meantime - with the fetched children attached to the clicked node. *)
C25_NoLostMutation ==
    [][ \A i \in 1..Len(ops) :
           (/\ NodeClickFetched(i)
            /\ pubs' # pubs
            /\ done.kind \in {"handleNodeClick", "handleSearch"})
               => data' = Some(updateTreeData(
                                   Obj("data", Get(data)), ops[i].arg,
                                   fetchChildren(ops[i].arg, Get(ops[i].got["people"]),
                                                 Get(ops[i].got["children"]))).val) ]_vars

(* C26: a click that toggles the clicked node, or flags it before fetching its
   children, publishes the current tree changed at the clicked node and
   nowhere else, whatever other nodes carry its identifier as their identifier
   or display name. *)
C26_ClickChangesClickedNode ==
    [][ \A loc \in (IF IsSome(data) THEN VisibleLocs(Get(data)) ELSE {}) :
           (NodeClick(loc) /\ pubs' # pubs) =>
               LET node == NodeAt(Get(data), loc)
               IN data' = Some(SetAt(Get(data), loc,
                                     IF ClickBranch(Get(data), node) = "toggle"
                                     THEN toggle(node)
                                     ELSE [node EXCEPT !.hasLoadedChildren = TRUE])) ]_vars

----------------------------------------------------------------------------
(* SpecCyclic: the App over a cyclic children index.

   children.json holds adam -> [x], x -> [y], y -> [x]; x first appears in
   Exodus, y in Numbers; root.json is the bare root. Init and the actions are
   those of Spec. *)

CyclicPeopleJson ==
    << Entry("adam", "Adam", "Genesis", Some(50)),
       Entry("x", "X", "Exodus", Some(10)),
       Entry("y", "Y", "Numbers", None) >>

CyclicChildrenJson ==
    << <<"adam", Some(<<"x">>)>>, <<"x", Some(<<"y">>)>>, <<"y", Some(<<"x">>)>> >>

InitCyclic ==
    /\ IdleTree
    /\ IdleIndex
    /\ store = [root |-> RootBare, people |-> CyclicPeopleJson,
                children |-> CyclicChildrenJson, aliases |-> <<>>]
    /\ rootCache = None
    /\ peopleIndexCache = None
    /\ childrenCache = None
    /\ parentsCache = None
    /\ data = None
    /\ selectedPerson = None
    /\ selectedBook = None
    /\ highlightId = None
    /\ hasAutoExpanded = FALSE
    /\ ops = << [NewOp("resetView", "root", "", None) EXCEPT !.wait = {"root"}] >>
    /\ alerts = <<>>
    /\ prev = None
    /\ firstView = None
    /\ pubs = 0
    /\ done = [kind |-> "", swaps |-> 0]
    /\ events = 0

SpecCyclic == InitCyclic /\ [][Next]_vars

(* C27: in a published filtered tree no identifier occurs twice on the chain
   from the root to a node. *)
C27_FilteredTreeChainsAcyclic ==
    (IsSome(data) /\ Get(data).isFilterRoot) =>
        \A loc \in AllLocs(Get(data)) : NoDuplicates(IdsAlong(Get(data), loc))

(* C28: whenever no operation is pending and a tree is displayed, the tree
   root is the filter root of the selected book, or the dataset root when no
   book is selected. *)
C28_BookAndTreeAgree ==
    (ops = <<>> /\ ~EffectDue /\ IsSome(data)) =>
        IF IsSome(selectedBook)
        THEN Get(data).isFilterRoot /\ Get(data).id = "book-" \o Get(selectedBook)
        ELSE ~Get(data).isFilterRoot /\ Get(data).id = store.root.id


----------------------------------------------------------------------------
(* C29: while the first load of the people index or of the children index has
   not completed (its cache is still unset), at most one fetch of that
   resource is in flight, whatever the number of callers waiting for it. *)
C29_OneFetchPerResource ==
    \A r \in {"people", "children"} :
        ~Cached(r) => Cardinality({ i \in 1..Len(ops) : r \in ops[i].wait }) <= 1


----------------------------------------------------------------------------
(* C30: no operation modifies the cached root, and every resetView that
   publishes, after whatever clicks, searches and filters, publishes a tree
   equal to the one the first resetView published (the initial load is the
   first resetView started; the claim makes all of them equal), with the
   selection and the highlight cleared. *)
C30_ResetRestoresInitialView ==
    [][ /\ (IsSome(rootCache) /\ IsSome(rootCache')) => rootCache' = rootCache
        /\ \A i \in 1..Len(ops) :
             (ExpandFinish(i) /\ ops[i].kind = "resetView") =>
                 /\ data' = firstView'
                 /\ selectedPerson' = None
                 /\ highlightId' = None ]_vars

====
